---------------------------- MODULE Spec2Model ----------------------------
(***************************************************************************)
(* A model of gin-docs (package gindocs): the struct-tag parser, the type  *)
(* registry, the reflect.Type -> schema compiler, the GORM variant         *)
(* generators, and the GinDocs engine that builds and publishes the        *)
(* OpenAPI document (getSpec / buildSpec / assembleSpec).                  *)
(*                                                                         *)
(* Conventions.                                                            *)
(*  - A Go pointer or optional value (a pointer to int or SchemaObject)  *)
(*    is a sequence of length 0 (nil) or 1.                                *)
(*  - A reflect.Type is a descriptor [wrap, base, id]: wrap is the list    *)
(*    of pointer/slice/map constructors from the outside in, base the kind *)
(*    of the innermost type and id the identity of a struct type           *)
(*    ("pkg.Name"), "" otherwise.                                          *)
(*  - A struct tag value is the sequence of its clauses as the parser's    *)
(*    strings.Split yields them; a clause "key=value" is [k, v, list]      *)
(*    with list the items written in the value.  <<>> is the empty tag.    *)
(*  - The compiler is synchronous Go code, so a call is one operator that  *)
(*    threads the registry state st through the calls it makes.            *)
(***************************************************************************)
EXTENDS Integers, Sequences, FiniteSets, TLC

\* ------------------------------------------------------------------ bounds
\* goroutines serving documentation requests
NumThreads == 2
\* Route(...) override registrations made by the host application
MaxOverrides == 1
\* compiler calls made on one registry in the compiler-only specification
MaxOps == 3
\* clauses in one binding tag in the field-only specification
MaxClauses == 2

\* ----------------------------------------------------------------- helpers
Nil == <<>>
Some(x) == <<x>>
IsNil(p) == Len(p) = 0
Val(p) == p[1]

Range(s) == {s[i] : i \in 1..Len(s)}

\* ------------------------------------------------------------ tag clauses
Cl(k) == [k |-> k, v |-> "", list |-> <<>>]
ClV(k, v) == [k |-> k, v |-> v, list |-> <<>>]
ClL(k, list) == [k |-> k, v |-> "", list |-> list]

\* A float64: its integer part and the digits after the decimal point.
Num(w, f) == [w |-> w, f |-> f]

\* float64(v) for an int v
Float64(v) == Num(v, "")

\* The number a decimal numeral denotes, for the value strings the model
\* uses; any other string ("abc", "") is no numeral.
Numeral(s) ==
    CASE s = "0" -> Some(Num(0, ""))
      [] s = "2" -> Some(Num(2, ""))
      [] s = "100" -> Some(Num(100, ""))
      [] s = "150" -> Some(Num(150, ""))
      [] s = "200" -> Some(Num(200, ""))
      [] s = "0.5" -> Some(Num(0, "5"))
      [] s = "99.5" -> Some(Num(99, "5"))
      [] OTHER -> Nil

\* strconv.ParseFloat(s, 64): any decimal numeral parses.
ParseFloat(s) == Numeral(s)

\* strconv.Atoi: only a numeral without a fraction parses.
Atoi(s) ==
    IF IsNil(Numeral(s)) THEN Nil
    ELSE IF Val(Numeral(s)).f # "" THEN Nil
    ELSE Some(Val(Numeral(s)).w)

\* strings.Fields: the items between runs of whitespace; an empty item is
\* never produced, so an empty value yields none.
Fields(list) == SelectSeq(list, LAMBDA x : x # "")

\* strings.Split(s, "|"): the items; one empty item for an empty value.
SplitBar(list) == IF list = <<>> THEN <<"">> ELSE list

TagInfoZero ==
    [JSONName |-> "", OmitEmpty |-> FALSE, JSONSkip |-> FALSE,
     Required |-> FALSE, MinLength |-> Nil, MaxLength |-> Nil,
     Minimum |-> Nil, Maximum |-> Nil, Enum |-> <<>>, Format |-> "",
     BindingSkip |-> FALSE,
     PrimaryKey |-> FALSE, AutoCreateTime |-> FALSE, AutoUpdateTime |-> FALSE,
     GORMSize |-> Nil, UniqueIndex |-> FALSE, GORMSkip |-> FALSE,
     Description |-> "", Deprecated |-> FALSE, Hidden |-> FALSE,
     DocsFormat |-> "", DocsEnum |-> <<>>]

\* parseJSONTag: name, omitEmpty, skip.
ParseJSONTag(tag) ==
    IF tag = <<>> THEN [name |-> "", omitEmpty |-> FALSE, skip |-> FALSE]
    ELSE IF tag = <<Cl("-")>> THEN [name |-> "", omitEmpty |-> FALSE, skip |-> TRUE]
    ELSE [name |-> tag[1].k,
          omitEmpty |-> \E i \in 2..Len(tag) : tag[i].k = "omitempty",
          skip |-> FALSE]

\* One iteration of parseBindingTag's loop: the switch on one clause.
BindingClause(info, p) ==
    CASE p.k = "required" -> [info EXCEPT !.Required = TRUE]
      [] p.k = "email" -> [info EXCEPT !.Format = "email"]
      [] p.k \in {"url", "uri", "http_url"} -> [info EXCEPT !.Format = "uri"]
      [] p.k \in {"uuid", "uuid3", "uuid4", "uuid5"} -> [info EXCEPT !.Format = "uuid"]
      [] p.k = "ipv4" -> [info EXCEPT !.Format = "ipv4"]
      [] p.k = "ipv6" -> [info EXCEPT !.Format = "ipv6"]
      [] p.k = "ip" -> [info EXCEPT !.Format = "ipv4"]
      [] p.k = "datetime" -> [info EXCEPT !.Format = "date-time"]
      [] p.k = "oneof=" -> [info EXCEPT !.Enum = Fields(p.list)]
      [] p.k = "min=" ->
            IF IsNil(Atoi(p.v)) THEN info
            ELSE [info EXCEPT !.MinLength = Atoi(p.v),
                              !.Minimum = Some(Float64(Val(Atoi(p.v))))]
      [] p.k = "max=" ->
            IF IsNil(Atoi(p.v)) THEN info
            ELSE [info EXCEPT !.MaxLength = Atoi(p.v),
                              !.Maximum = Some(Float64(Val(Atoi(p.v))))]
      [] p.k \in {"gte=", "gt="} ->
            IF IsNil(ParseFloat(p.v)) THEN info
            ELSE [info EXCEPT !.Minimum = ParseFloat(p.v)]
      [] p.k \in {"lte=", "lt="} ->
            IF IsNil(ParseFloat(p.v)) THEN info
            ELSE [info EXCEPT !.Maximum = ParseFloat(p.v)]
      [] p.k = "len=" ->
            IF IsNil(Atoi(p.v)) THEN info
            ELSE [info EXCEPT !.MinLength = Atoi(p.v), !.MaxLength = Atoi(p.v)]
      [] OTHER -> info

RECURSIVE BindingFrom(_, _, _)
BindingFrom(tag, i, info) ==
    IF i > Len(tag) THEN info
    ELSE BindingFrom(tag, i + 1, BindingClause(info, tag[i]))

\* parseBindingTag
ParseBindingTag(tag) ==
    IF tag = <<>> THEN TagInfoZero
    ELSE IF tag = <<Cl("-")>> THEN [TagInfoZero EXCEPT !.BindingSkip = TRUE]
    ELSE BindingFrom(tag, 1, TagInfoZero)

\* One iteration of parseGORMTag's loop; keys are the lower-cased clauses.
GORMClause(info, p) ==
    CASE p.k \in {"primarykey", "primary_key"} -> [info EXCEPT !.PrimaryKey = TRUE]
      [] p.k = "autocreatetime" -> [info EXCEPT !.AutoCreateTime = TRUE]
      [] p.k = "autoupdatetime" -> [info EXCEPT !.AutoUpdateTime = TRUE]
      [] p.k \in {"uniqueindex", "uniqueindex:"} -> [info EXCEPT !.UniqueIndex = TRUE]
      [] p.k = "size:" ->
            IF IsNil(Atoi(p.v)) THEN info ELSE [info EXCEPT !.GORMSize = Atoi(p.v)]
      [] OTHER -> info

RECURSIVE GORMFrom(_, _, _)
GORMFrom(tag, i, info) ==
    IF i > Len(tag) THEN info
    ELSE GORMFrom(tag, i + 1, GORMClause(info, tag[i]))

\* parseGORMTag
ParseGORMTag(tag) ==
    IF tag = <<>> THEN TagInfoZero
    ELSE IF tag \in {<<Cl("-")>>, <<Cl("-:all")>>} THEN [TagInfoZero EXCEPT !.GORMSkip = TRUE]
    ELSE GORMFrom(tag, 1, TagInfoZero)

\* One iteration of parseDocsTag's loop.
DocsClause(info, p) ==
    CASE p.k = "deprecated" -> [info EXCEPT !.Deprecated = TRUE]
      [] p.k = "hidden" -> [info EXCEPT !.Hidden = TRUE]
      [] p.k = "description:" -> [info EXCEPT !.Description = p.v]
      [] p.k = "format:" -> [info EXCEPT !.DocsFormat = p.v]
      [] p.k = "enum:" -> [info EXCEPT !.DocsEnum = SplitBar(p.list)]
      [] OTHER -> info

RECURSIVE DocsFrom(_, _, _)
DocsFrom(tag, i, info) ==
    IF i > Len(tag) THEN info
    ELSE DocsFrom(tag, i + 1, DocsClause(info, tag[i]))

\* parseDocsTag
ParseDocsTag(tag) ==
    IF tag = <<>> THEN TagInfoZero ELSE DocsFrom(tag, 1, TagInfoZero)

\* mergeTags with the binding namespace taking precedence for format and enum
MergeTags_bindingFirst(jsonTag, bindingTag, gormTag, docsTag) ==
    LET j == ParseJSONTag(jsonTag)
        b == ParseBindingTag(bindingTag)
        g == ParseGORMTag(gormTag)
        d == ParseDocsTag(docsTag)
    IN  [JSONName |-> j.name, OmitEmpty |-> j.omitEmpty, JSONSkip |-> j.skip,
         Required |-> b.Required, MinLength |-> b.MinLength,
         MaxLength |-> b.MaxLength, Minimum |-> b.Minimum, Maximum |-> b.Maximum,
         Enum |-> IF Len(b.Enum) > 0 THEN b.Enum ELSE d.DocsEnum,
         Format |-> IF b.Format # "" THEN b.Format ELSE d.DocsFormat,
         BindingSkip |-> b.BindingSkip,
         PrimaryKey |-> g.PrimaryKey, AutoCreateTime |-> g.AutoCreateTime,
         AutoUpdateTime |-> g.AutoUpdateTime, GORMSize |-> g.GORMSize,
         UniqueIndex |-> g.UniqueIndex, GORMSkip |-> g.GORMSkip,
         Description |-> d.Description, Deprecated |-> d.Deprecated,
         Hidden |-> d.Hidden, DocsFormat |-> d.DocsFormat, DocsEnum |-> d.DocsEnum]

\* mergeTags
MergeTags(jsonTag, bindingTag, gormTag, docsTag) ==
    LET j == ParseJSONTag(jsonTag)
        b == ParseBindingTag(bindingTag)
        g == ParseGORMTag(gormTag)
        d == ParseDocsTag(docsTag)
    IN  [JSONName |-> j.name, OmitEmpty |-> j.omitEmpty, JSONSkip |-> j.skip,
         Required |-> b.Required, MinLength |-> b.MinLength,
         MaxLength |-> b.MaxLength, Minimum |-> b.Minimum, Maximum |-> b.Maximum,
         Enum |-> IF Len(d.DocsEnum) > 0 THEN d.DocsEnum ELSE b.Enum,
         Format |-> IF d.DocsFormat # "" THEN d.DocsFormat ELSE b.Format,
         BindingSkip |-> b.BindingSkip,
         PrimaryKey |-> g.PrimaryKey, AutoCreateTime |-> g.AutoCreateTime,
         AutoUpdateTime |-> g.AutoUpdateTime, GORMSize |-> g.GORMSize,
         UniqueIndex |-> g.UniqueIndex, GORMSkip |-> g.GORMSkip,
         Description |-> d.Description, Deprecated |-> d.Deprecated,
         Hidden |-> d.Hidden, DocsFormat |-> d.DocsFormat, DocsEnum |-> d.DocsEnum]

\* ------------------------------------------------------- type descriptors
Desc(wrap, base, id) == [wrap |-> wrap, base |-> base, id |-> id]
Prim(base) == Desc(<<>>, base, "")
StructT(id) == Desc(<<>>, "struct", id)
PtrTo(d) == [d EXCEPT !.wrap = <<"ptr">> \o @]
SliceOf(d) == [d EXCEPT !.wrap = <<"slice">> \o @]
MapOf(d) == [d EXCEPT !.wrap = <<"map">> \o @]
\* reflect.TypeOf(nil): the nil reflect.Type
NilType == Desc(<<>>, "nil", "")

\* t.Kind()
Kind(d) == IF d.wrap # <<>> THEN d.wrap[1] ELSE d.base
\* t.Elem()
Elem(d) == [d EXCEPT !.wrap = Tail(@)]

\* for t.Kind() == reflect.Ptr { t = t.Elem() }
RECURSIVE Deref(_)
Deref(d) == IF Kind(d) = "ptr" THEN Deref(Elem(d)) ELSE d

\* A struct field (reflect.StructField) and its four tag values.
Fld(name, type, json, binding, gorm, docs) ==
    [name |-> name, exported |-> TRUE, anonymous |-> FALSE, type |-> type,
     json |-> json, binding |-> binding, gorm |-> gorm, docs |-> docs]
\* An embedded (anonymous) field.
Emb(name, type) ==
    [name |-> name, exported |-> TRUE, anonymous |-> TRUE, type |-> type,
     json |-> <<>>, binding |-> <<>>, gorm |-> <<>>, docs |-> <<>>]
\* An unexported field.
Unexp(name, type) ==
    [name |-> name, exported |-> FALSE, anonymous |-> FALSE, type |-> type,
     json |-> <<>>, binding |-> <<>>, gorm |-> <<>>, docs |-> <<>>]

ST(name, special, fields) == [name |-> name, special |-> special, fields |-> fields]

(***************************************************************************)
(* The struct types of the host application, by identity "pkg.Name".       *)
(*   main.Node      self-reference through a slice (TestNode)              *)
(*   main.Entity    {ID primarykey, Name required max=100,                 *)
(*                   CreatedAt autoCreateTime}                             *)
(*   main.Base      embedded base: ID primarykey, ModifiedOn               *)
(*                  autoUpdateTime (excluded by directive only)            *)
(*   main.Child     embeds Base; Title required; Secret json:"-";          *)
(*                  an unexported field                                    *)
(*   main.A, main.B an indirect cycle A -> *B -> []A                       *)
(*   a.Item, b.Item two types with the bare name Item; a.Item has a field  *)
(*                  of type b.Item                                         *)
(*   main.EmbedSelf embeds a pointer to its own type                       *)
(*   main.Audit     {Note required}                                        *)
(*   main.Account   embeds Audit under json:"-"; Email required;           *)
(*                  Password docs:"hidden"; Legacy gorm:"-"                *)
(*   main.Deep      embeds Child, which embeds Base; Level                 *)
(*   main.meta      an unexported struct type {Author required}            *)
(*   main.Doc       embeds meta; Title                                     *)
(*   main.Worker    {Jobs chan int, Meta interface{}, Ratio complex128,    *)
(*                   Name required}                                        *)
(*   main.Ping, main.Pong  each embeds a pointer to the other              *)
(*   main.Memo      embeds Audit and shadows its field: Note required,     *)
(*                  json:"note"                                            *)
(*   anon.1         an unnamed struct type (t.Name() == "")                *)
(*   time.Time      the well-known time type                               *)
(*   main.Stamp     a struct implementing encoding.TextMarshaler           *)
(***************************************************************************)
StructTypes ==
    ( "main.Node" :> ST("Node", "", <<
          Fld("ID", Prim("uint"), <<Cl("id")>>, <<>>, <<>>, <<>>),
          Fld("Name", Prim("string"), <<Cl("name")>>, <<>>, <<>>, <<>>),
          Fld("Children", SliceOf(StructT("main.Node")), <<Cl("children")>>, <<>>, <<>>, <<>>) >>)
   @@ "main.Entity" :> ST("Entity", "", <<
          Fld("ID", Prim("uint"), <<Cl("id")>>, <<>>, <<Cl("primarykey")>>, <<>>),
          Fld("Name", Prim("string"), <<Cl("name")>>,
              <<Cl("required"), ClV("max=", "100")>>, <<>>, <<>>),
          Fld("CreatedAt", StructT("time.Time"), <<Cl("created_at")>>, <<>>,
              <<Cl("autocreatetime")>>, <<>>) >>)
   @@ "main.Base" :> ST("Base", "", <<
          Fld("ID", Prim("uint"), <<Cl("id")>>, <<>>, <<Cl("primarykey")>>, <<>>),
          Fld("ModifiedOn", Prim("int64"), <<Cl("modified_on")>>, <<Cl("required")>>,
              <<Cl("autoupdatetime")>>, <<>>) >>)
   @@ "main.Child" :> ST("Child", "", <<
          Emb("Base", StructT("main.Base")),
          Fld("Title", Prim("string"), <<Cl("title"), Cl("omitempty")>>,
              <<Cl("required")>>, <<ClV("size:", "200")>>, <<>>),
          Fld("Secret", Prim("string"), <<Cl("-")>>, <<Cl("required")>>, <<>>, <<>>),
          Unexp("cache", Prim("int")) >>)
   @@ "main.A" :> ST("A", "", <<
          Fld("B", PtrTo(StructT("main.B")), <<Cl("b")>>, <<>>, <<>>,
              <<ClV("description:", "the B")>>) >>)
   @@ "main.B" :> ST("B", "", <<
          Fld("As", SliceOf(StructT("main.A")), <<Cl("as")>>, <<>>, <<>>, <<>>) >>)
   @@ "a.Item" :> ST("Item", "", <<
          Fld("SKU", Prim("string"), <<Cl("sku")>>, <<Cl("required")>>, <<>>, <<>>),
          Fld("Inner", StructT("b.Item"), <<Cl("inner")>>, <<>>, <<>>, <<>>) >>)
   @@ "b.Item" :> ST("Item", "", <<
          Fld("Qty", Prim("int"), <<Cl("qty")>>, <<ClV("gte=", "0")>>, <<>>, <<>>) >>)
   @@ "main.EmbedSelf" :> ST("EmbedSelf", "", <<
          Emb("EmbedSelf", PtrTo(StructT("main.EmbedSelf"))),
          Fld("X", Prim("int"), <<Cl("x")>>, <<>>, <<>>, <<>>) >>)
   @@ "main.Audit" :> ST("Audit", "", <<
          Fld("Note", Prim("string"), <<Cl("note")>>, <<Cl("required")>>, <<>>, <<>>) >>)
   @@ "main.Account" :> ST("Account", "", <<
          [Emb("Audit", StructT("main.Audit")) EXCEPT !.json = <<Cl("-")>>],
          Fld("Email", Prim("string"), <<Cl("email")>>,
              <<Cl("required"), Cl("email")>>, <<>>, <<>>),
          Fld("Password", Prim("string"), <<Cl("password")>>, <<Cl("required")>>,
              <<>>, <<Cl("hidden")>>),
          Fld("Legacy", Prim("string"), <<Cl("legacy")>>, <<Cl("required")>>,
              <<Cl("-")>>, <<>>) >>)
   @@ "main.Deep" :> ST("Deep", "", <<
          Emb("Child", StructT("main.Child")),
          Fld("Level", Prim("int"), <<Cl("level")>>, <<>>, <<>>, <<>>) >>)
   @@ "main.meta" :> ST("meta", "", <<
          Fld("Author", Prim("string"), <<Cl("author")>>, <<Cl("required")>>, <<>>, <<>>) >>)
   @@ "main.Doc" :> ST("Doc", "", <<
          [Emb("meta", StructT("main.meta")) EXCEPT !.exported = FALSE],
          Fld("Title", Prim("string"), <<Cl("title")>>, <<>>, <<>>, <<>>) >>)
   @@ "main.Worker" :> ST("Worker", "", <<
          Fld("Jobs", Prim("chan"), <<Cl("jobs")>>, <<>>, <<>>, <<>>),
          Fld("Meta", Prim("interface"), <<Cl("meta")>>, <<>>, <<>>, <<>>),
          Fld("Ratio", Prim("complex128"), <<Cl("ratio")>>, <<>>, <<>>, <<>>),
          Fld("Name", Prim("string"), <<Cl("name")>>, <<Cl("required")>>, <<>>, <<>>) >>)
   @@ "main.Ping" :> ST("Ping", "", <<
          Emb("Pong", PtrTo(StructT("main.Pong"))) >>)
   @@ "main.Pong" :> ST("Pong", "", <<
          Emb("Ping", PtrTo(StructT("main.Ping"))) >>)
   @@ "main.Memo" :> ST("Memo", "", <<
          Emb("Audit", StructT("main.Audit")),
          Fld("Note", Prim("string"), <<Cl("note")>>, <<Cl("required")>>, <<>>, <<>>) >>)
   @@ "anon.1" :> ST("", "", <<
          Fld("V", Prim("int"), <<>>, <<>>, <<>>, <<>>) >>)
   @@ "time.Time" :> ST("Time", "time", <<
          Unexp("wall", Prim("uint64")) >>)
   @@ "main.Stamp" :> ST("Stamp", "text", <<
          Fld("Raw", Prim("string"), <<Cl("raw")>>, <<>>, <<>>, <<>>) >>) )

StructIds == DOMAIN StructTypes

\* -------------------------------------------------------------- schemas
\* SchemaObject (the fields the compiler sets)
SchemaZero ==
    [ref |-> "", type |-> "", format |-> "", description |-> "",
     deprecated |-> FALSE, readOnly |-> FALSE,
     minimum |-> Nil, maximum |-> Nil, minLength |-> Nil, maxLength |-> Nil,
     items |-> Nil, props |-> <<>>, required |-> <<>>, addl |-> Nil,
     enum |-> <<>>, allOf |-> <<>>]

Typed(type, format) == [SchemaZero EXCEPT !.type = type, !.format = format]

\* RefPath
RefPath(name) == "#/components/schemas/" \o name
\* SchemaRef
SchemaRef(name) == [SchemaZero EXCEPT !.ref = RefPath(name)]
\* schema.Ref != ""
IsRef(schema) == schema.ref # ""
\* &SchemaObject{Type: "object", Properties: make(map...)}
ObjectSchema == Typed("object", "")

\* m[k] = v on a Go map
Put(m, k, v) == [x \in DOMAIN m \cup {k} |-> IF x = k THEN v ELSE m[x]]

\* ------------------------------------------------------------- registry
\* newTypeRegistry
NewTypeRegistry == [schemas |-> <<>>, seen |-> {}]

\* The state a compiler call threads: the registry (schemas, seen), the
\* names passed to Register (regd) and the number of times each struct's
\* fields were walked by structToSchema (walks), both kept for the
\* properties; crashed is set when the call never returns (unbounded
\* recursion, which ends a Go process with a fatal stack overflow).
CompileState(reg, regd, walks) ==
    [schemas |-> reg.schemas, seen |-> reg.seen, regd |-> regd,
     walks |-> walks, crashed |-> FALSE]

NoWalks == [t \in StructIds |-> 0]

\* TypeRegistry.Has
Has(st, name) == name \in DOMAIN st.schemas
\* TypeRegistry.isSeen
IsSeen(st, tid) == tid \in st.seen
\* TypeRegistry.markSeen
MarkSeen(st, tid) == [st EXCEPT !.seen = @ \cup {tid}]
\* TypeRegistry.unmarkSeen leaving the type in the set
UnmarkSeen_keep(st, tid) == st

\* TypeRegistry.unmarkSeen
UnmarkSeen(st, tid) == [st EXCEPT !.seen = @ \ {tid}]
\* TypeRegistry.Register
Register(st, name, schema) ==
    [st EXCEPT !.schemas = Put(@, name, schema), !.regd = @ \cup {name}]
\* TypeRegistry.All returning an empty map
All_none(st) == <<>>

\* TypeRegistry.All: a copy of the map
All(st) == st.schemas

\* schemaName
SchemaName(tid) ==
    IF StructTypes[tid].name = "" THEN "AnonymousStruct" ELSE StructTypes[tid].name

\* ------------------------------------------------------------- compiler
\* specialTypeSchema: time.Time, and types implementing TextMarshaler
SpecialTypeSchema(d) ==
    IF Kind(d) # "struct" THEN Nil
    ELSE CASE StructTypes[d.id].special = "time" -> Some(Typed("string", "date-time"))
           [] StructTypes[d.id].special = "text" -> Some(Typed("string", ""))
           [] OTHER -> Nil

\* applyTagConstraints with the GORM size written over a maxLength already set
ApplyTagConstraints_sizeAlways(schema, tags) ==
    LET s1 == IF tags.Description # "" THEN [schema EXCEPT !.description = tags.Description]
              ELSE schema
        s2 == IF tags.UniqueIndex
              THEN [s1 EXCEPT !.description =
                        IF @ # "" THEN @ \o ". Must be unique" ELSE "Must be unique"]
              ELSE s1
        s3 == IF tags.Format # "" THEN [s2 EXCEPT !.format = tags.Format] ELSE s2
        s4 == [s3 EXCEPT !.enum = @ \o tags.Enum]
        s5 == IF s4.type \in {"integer", "number"}
              THEN [s4 EXCEPT !.minimum = tags.Minimum, !.maximum = tags.Maximum]
              ELSE s4
        s6 == IF s5.type = "string"
              THEN [s5 EXCEPT !.minLength = tags.MinLength,
                              !.maxLength = IF ~IsNil(tags.GORMSize)
                                            THEN tags.GORMSize ELSE tags.MaxLength]
              ELSE s5
        s7 == IF tags.PrimaryKey \/ tags.AutoCreateTime \/ tags.AutoUpdateTime
              THEN [s6 EXCEPT !.readOnly = TRUE] ELSE s6
    IN  IF tags.Deprecated THEN [s7 EXCEPT !.deprecated = TRUE] ELSE s7

\* applyTagConstraints with the bounds written whatever the schema's type is
ApplyTagConstraints_anyKind(schema, tags) ==
    LET s1 == IF tags.Description # "" THEN [schema EXCEPT !.description = tags.Description]
              ELSE schema
        s2 == IF tags.UniqueIndex
              THEN [s1 EXCEPT !.description =
                        IF @ # "" THEN @ \o ". Must be unique" ELSE "Must be unique"]
              ELSE s1
        s3 == IF tags.Format # "" THEN [s2 EXCEPT !.format = tags.Format] ELSE s2
        s4 == [s3 EXCEPT !.enum = @ \o tags.Enum]
        s5 == [s4 EXCEPT !.minimum = tags.Minimum, !.maximum = tags.Maximum]
        s6 == [s5 EXCEPT !.minLength = tags.MinLength,
                         !.maxLength = IF ~IsNil(tags.GORMSize) /\ IsNil(tags.MaxLength)
                                       THEN tags.GORMSize ELSE tags.MaxLength]
        s7 == IF tags.PrimaryKey \/ tags.AutoCreateTime \/ tags.AutoUpdateTime
              THEN [s6 EXCEPT !.readOnly = TRUE] ELSE s6
    IN  IF tags.Deprecated THEN [s7 EXCEPT !.deprecated = TRUE] ELSE s7

\* applyTagConstraints (description, format, enum, bounds, readOnly,
\* deprecated; the default and example values are not modelled)
ApplyTagConstraints(schema, tags) ==
    LET s1 == IF tags.Description # "" THEN [schema EXCEPT !.description = tags.Description]
              ELSE schema
        s2 == IF tags.UniqueIndex
              THEN [s1 EXCEPT !.description =
                        IF @ # "" THEN @ \o ". Must be unique" ELSE "Must be unique"]
              ELSE s1
        s3 == IF tags.Format # "" THEN [s2 EXCEPT !.format = tags.Format] ELSE s2
        s4 == [s3 EXCEPT !.enum = @ \o tags.Enum]
        s5 == IF s4.type \in {"integer", "number"}
              THEN [s4 EXCEPT !.minimum = tags.Minimum, !.maximum = tags.Maximum]
              ELSE s4
        s6 == IF s5.type = "string"
              THEN [s5 EXCEPT !.minLength = tags.MinLength,
                              !.maxLength = IF ~IsNil(tags.GORMSize) /\ IsNil(tags.MaxLength)
                                            THEN tags.GORMSize ELSE tags.MaxLength]
              ELSE s5
        s7 == IF tags.PrimaryKey \/ tags.AutoCreateTime \/ tags.AutoUpdateTime
              THEN [s6 EXCEPT !.readOnly = TRUE] ELSE s6
    IN  IF tags.Deprecated THEN [s7 EXCEPT !.deprecated = TRUE] ELSE s7

\* strings.Contains(strings.ToLower(gormTag), word), on the clauses
TagContains(tag, word) == \E i \in 1..Len(tag) : tag[i].k = word \/ tag[i].v = word

\* The field names of the model whose lower-case form contains "created",
\* "updated" or "deleted".
StampLikeNames == {"CreatedAt", "UpdatedAt", "DeletedAt", "LastUpdated"}

\* shouldSkipForCreate without the test for the auto-timestamp directives
ShouldSkipForCreate_noAuto(f) ==
    \/ TagContains(f.gorm, "primarykey") \/ TagContains(f.gorm, "primary_key")
    \/ f.name \in {"ID", "CreatedAt", "UpdatedAt", "DeletedAt"}
    \/ f.type = StructT("gorm.DeletedAt")
    \/ /\ f.type \in {StructT("time.Time"), PtrTo(StructT("time.Time"))}
       /\ f.name \in StampLikeNames

\* shouldSkipForCreate
ShouldSkipForCreate(f) ==
    \/ TagContains(f.gorm, "primarykey") \/ TagContains(f.gorm, "primary_key")
    \/ TagContains(f.gorm, "autocreatetime") \/ TagContains(f.gorm, "autoupdatetime")
    \/ f.name \in {"ID", "CreatedAt", "UpdatedAt", "DeletedAt"}
    \/ f.type = StructT("gorm.DeletedAt")
    \/ /\ f.type \in {StructT("time.Time"), PtrTo(StructT("time.Time"))}
       /\ f.name \in StampLikeNames

\* if tagInfo.Required { schema.Required = append(schema.Required, propName) }
\* in every field loop.
RequiredAfter_always(mode, required, propName, tags) ==
    IF tags.Required THEN Append(required, propName) ELSE required

\* The same statement of processStructFields, generateCreateVariant and
\* processCreateFields; generateUpdateVariant and processUpdateFields have
\* no such statement.
RequiredAfter(mode, required, propName, tags) ==
    IF mode = "update" THEN required
    ELSE IF tags.Required THEN Append(required, propName) ELSE required

RECURSIVE TypeToSchema(_, _, _), StructToSchema(_, _, _), FieldToSchema(_, _, _, _),
          FieldLoop(_, _, _, _, _, _), FieldStep(_, _, _, _, _, _, _, _),
          ProcessStructFields(_, _, _, _), ProcessCreateFields(_, _, _, _),
          ProcessUpdateFields(_, _, _, _)

Ret(st, sch) == [st |-> st, sch |-> sch]

\* typeToSchema, slice and array: []byte is a string, anything else an array
\* of the element schema r.
SliceSchema(d, r) ==
    IF Kind(Elem(d)) = "uint8" THEN Ret(r.st, Typed("string", "byte"))
    ELSE Ret(r.st, [Typed("array", "") EXCEPT !.items = Some(r.sch)])

\* typeToSchema, map: an object whose additionalProperties is the value schema r.
MapSchema(r) == Ret(r.st, [Typed("object", "") EXCEPT !.addl = Some(r.sch)])

\* typeToSchema, after the pointers are unwrapped and the special types are
\* tried.  path is the set of field walks active on the call stack.
KindSchema(d, k, st, path) ==
    CASE k = "bool" -> Ret(st, Typed("boolean", ""))
      [] k \in {"int", "int8", "int16", "int32", "uint", "uint8", "uint16", "uint32"} ->
            Ret(st, Typed("integer", "int32"))
      [] k \in {"int64", "uint64"} -> Ret(st, Typed("integer", "int64"))
      [] k = "float32" -> Ret(st, Typed("number", "float"))
      [] k = "float64" -> Ret(st, Typed("number", "double"))
      [] k = "string" -> Ret(st, Typed("string", ""))
      [] k \in {"slice", "array"} -> SliceSchema(d, TypeToSchema(Elem(d), st, path))
      [] k = "map" -> MapSchema(TypeToSchema(Elem(d), st, path))
      [] k = "struct" -> StructToSchema(d.id, st, path)
      [] k = "interface" -> Ret(st, SchemaZero)
      [] OTHER -> Ret(st, Typed("string", ""))

\* typeToSchema
TypeToSchema(d0, st, path) ==
    IF ~IsNil(SpecialTypeSchema(Deref(d0))) THEN Ret(st, Val(SpecialTypeSchema(Deref(d0))))
    ELSE KindSchema(Deref(d0), Kind(Deref(d0)), st, path)

\* structToSchema, after the field walk returned r: Register, the deferred
\* unmarkSeen, and the reference that is returned.
RegisterStruct(tid, name, r) ==
    IF r.st.crashed THEN Ret(r.st, SchemaRef(name))
    ELSE Ret(UnmarkSeen(Register(r.st, name, r.sch), tid), SchemaRef(name))

\* structToSchema: markSeen, and the walk is counted
Enter(st, tid) == [MarkSeen(st, tid) EXCEPT !.walks[tid] = @ + 1]

\* structToSchema
StructToSchema(tid, st, path) ==
    IF Has(st, SchemaName(tid)) THEN Ret(st, SchemaRef(SchemaName(tid)))
    ELSE IF IsSeen(st, tid) THEN Ret(st, SchemaRef(SchemaName(tid)))
    ELSE RegisterStruct(tid, SchemaName(tid),
                        ProcessStructFields(tid, ObjectSchema, Enter(st, tid), path))

\* fieldToSchema, after typeToSchema returned r
TaggedSchema(r, tags) ==
    IF IsRef(r.sch)
    THEN IF tags.Description # "" \/ tags.Deprecated
         THEN Ret(r.st, [SchemaZero EXCEPT !.allOf = <<r.sch>>,
                                           !.description = tags.Description,
                                           !.deprecated = tags.Deprecated])
         ELSE r
    ELSE Ret(r.st, ApplyTagConstraints(r.sch, tags))

\* fieldToSchema
FieldToSchema(d, tags, st, path) == TaggedSchema(TypeToSchema(d, st, path), tags)

\* mergeTags on the four tags of a field
TagsOf(f) == MergeTags(f.json, f.binding, f.gorm, f.docs)

\* propName without the JSON name
PropName_goName(f, tagInfo) == f.name

\* propName: the JSON name, or the Go field name
PropName(f, tagInfo) == IF tagInfo.JSONName = "" THEN f.name ELSE tagInfo.JSONName

\* The variants compiling a field from its type alone, without the tags
FieldSchema_typeOnly(mode, sch) ==
    IF mode = "full" \/ IsRef(sch) THEN sch ELSE Typed(sch.type, sch.format)

\* fieldSchema.ReadOnly = false, in the update loops only
FieldSchema(mode, sch) ==
    IF mode = "update" /\ ~IsRef(sch) THEN [sch EXCEPT !.readOnly = FALSE] ELSE sch

\* schema.Properties.Set(propName, fieldSchema) and the required list, then
\* the rest of the loop; r is what fieldToSchema returned.
AddField(mode, tid, i, schema, path, f, tagInfo, r) ==
    FieldLoop(mode, tid, i + 1,
              [schema EXCEPT !.props = Put(@, PropName(f, tagInfo), FieldSchema(mode, r.sch)),
                             !.required = RequiredAfter(mode, @, PropName(f, tagInfo), tagInfo)],
              r.st, path)

\* The walker an embedded struct is handed to.
EmbeddedWalk(mode, tid, schema, st, path) ==
    CASE mode = "full" -> ProcessStructFields(tid, schema, st, path)
      [] mode = "create" -> ProcessCreateFields(tid, schema, st, path)
      [] OTHER -> ProcessUpdateFields(tid, schema, st, path)

\* continue: the rest of the loop after an embedded struct was hoisted
AfterEmbedded(mode, tid, i, path, r) == FieldLoop(mode, tid, i + 1, r.sch, r.st, path)

(***************************************************************************)
(* The body of the field loop the five walkers share, for field f with     *)
(* merged tags tagInfo: processStructFields (mode "full"),                 *)
(* generateCreateVariant and processCreateFields ("create"),               *)
(* generateUpdateVariant and processUpdateFields ("update").  The loops    *)
(* differ in the walker an embedded struct is handed to, in the            *)
(* shouldSkipForCreate test (variants only), in the readOnly reset (update *)
(* only) and in the required list (not in update).                         *)
(***************************************************************************)
FieldStep(mode, tid, i, schema, st, path, f, tagInfo) ==
    IF ~f.exported THEN FieldLoop(mode, tid, i + 1, schema, st, path)
    ELSE IF /\ f.anonymous
            /\ Kind(Deref(f.type)) = "struct"
            /\ IsNil(SpecialTypeSchema(Deref(f.type)))
    THEN AfterEmbedded(mode, tid, i, path,
                       EmbeddedWalk(mode, Deref(f.type).id, schema, st, path))
    ELSE IF mode # "full" /\ ShouldSkipForCreate(f)
    THEN FieldLoop(mode, tid, i + 1, schema, st, path)
    ELSE IF tagInfo.JSONSkip \/ tagInfo.GORMSkip \/ tagInfo.Hidden
    THEN FieldLoop(mode, tid, i + 1, schema, st, path)
    ELSE AddField(mode, tid, i, schema, path, f, tagInfo,
                  FieldToSchema(f.type, tagInfo, st, path))

\* for i := 0; i < t.NumField(); i++ { ... }, from field i on
FieldLoop(mode, tid, i, schema, st, path) ==
    IF st.crashed \/ i > Len(StructTypes[tid].fields) THEN Ret(st, schema)
    ELSE FieldStep(mode, tid, i, schema, st, path,
                   StructTypes[tid].fields[i], TagsOf(StructTypes[tid].fields[i]))

\* The walk a call of a walker starts: its mode, its type, and the registry
\* contents it starts from.
WalkKey(mode, tid, st) == <<mode, tid, st.seen, DOMAIN st.schemas>>

(***************************************************************************)
(* A walker called again for the same type while a walk of that type with  *)
(* the same registry contents is still on the stack repeats that walk      *)
(* without end: the Go call never returns.                                 *)
(***************************************************************************)
Walk(mode, tid, schema, st, path) ==
    IF WalkKey(mode, tid, st) \in path THEN Ret([st EXCEPT !.crashed = TRUE], schema)
    ELSE FieldLoop(mode, tid, 1, schema, st, path \cup {WalkKey(mode, tid, st)})

\* processStructFields
ProcessStructFields(tid, schema, st, path) == Walk("full", tid, schema, st, path)

\* processCreateFields
ProcessCreateFields(tid, schema, st, path) == Walk("create", tid, schema, st, path)

\* processUpdateFields
ProcessUpdateFields(tid, schema, st, path) == Walk("update", tid, schema, st, path)

\* generateCreateVariant
GenerateCreateVariant(tid, st) == FieldLoop("create", tid, 1, ObjectSchema, st, {})

\* generateUpdateVariant
GenerateUpdateVariant(tid, st) == FieldLoop("update", tid, 1, ObjectSchema, st, {})

\* -------------------------------------------------------- GORM models
\* gd.registry.Register(prefix+name, variant)
RegisterVariant(prefix, tid, r) ==
    IF r.st.crashed THEN r.st
    ELSE Register(r.st, prefix \o StructTypes[tid].name, r.sch)

\* registerGORMModels, one named struct: the full schema, the Create
\* variant, the Update variant.
RegisterModel(t, st) ==
    RegisterVariant("Update", t.id,
        GenerateUpdateVariant(t.id,
            RegisterVariant("Create", t.id,
                GenerateCreateVariant(t.id, TypeToSchema(t, st, {}).st))))

\* One iteration of registerGORMModels' loop and the rest of the loop.
\* reflect.TypeOf of a nil entry is the nil Type, and t.Kind() on it panics.
RECURSIVE RegisterFrom(_, _, _)
RegisterFrom(models, i, st) ==
    IF st.crashed \/ i > Len(models) THEN [st |-> st, panicked |-> FALSE]
    ELSE IF models[i] = NilType THEN [st |-> st, panicked |-> TRUE]
    ELSE IF Kind(Deref(models[i])) # "struct" THEN RegisterFrom(models, i + 1, st)
    ELSE IF StructTypes[Deref(models[i]).id].name = "" THEN RegisterFrom(models, i + 1, st)
    ELSE RegisterFrom(models, i + 1, RegisterModel(Deref(models[i]), st))

\* registerGORMModels
RegisterGORMModels(models, st) == RegisterFrom(models, 1, st)

\* detectRelationships(t), t a type descriptor that carries its own fields.
\* strings.Contains(strings.ToLower(gormTag), hint) is a test on the keys of
\* the gorm clauses.
DetectRelationships(t) ==
    LET fields == Deref(t).fields
        Hint(f, keys) == \E i \in 1..Len(f.gorm) : f.gorm[i].k \in keys
        Sibling(name) == \E j \in 1..Len(fields) : fields[j].name = name
        Rel(f, ft) ==
            IF ~f.exported THEN <<>>
            ELSE IF Kind(ft) = "slice" /\ Kind(Elem(ft)) = "struct"
            THEN <<[FieldName |-> f.name,
                    Type |-> IF Hint(f, {"many2many:", "many2many"})
                             THEN "RelMany2Many" ELSE "RelHasMany",
                    RelatedModel |-> StructTypes[ft.id].name]>>
            ELSE IF Kind(ft) = "struct" /\ IsNil(SpecialTypeSchema(ft))
            THEN <<[FieldName |-> f.name,
                    Type |-> IF Sibling(f.name \o "ID")
                                 \/ Hint(f, {"foreignKey:", "foreignkey:"})
                             THEN "RelBelongsTo" ELSE "RelHasOne",
                    RelatedModel |-> StructTypes[ft.id].name]>>
            ELSE <<>>
        RECURSIVE From(_)
        From(i) == IF i > Len(fields) THEN <<>>
                   ELSE Rel(fields[i], Deref(fields[i].type)) \o From(i + 1)
    IN  IF Kind(Deref(t)) # "struct" THEN <<>> ELSE From(1)

\* ------------------------------------------------------------- engine
\* The routes gin reports (gd.introspect), as "METHOD path" keys.
RouterRoutes == <<"GET /nodes", "POST /items">>

\* The types the host application passes to RequestBody.
BodyTypes == {PtrTo(StructT("main.Node"))}

\* The values of Config.Models the host application may configure: none,
\* a list with a non-struct and an unnamed struct before two models (one
\* passed by pointer, one with an embedded struct), a list with a nil entry
\* before a model, and a struct that marshals itself as text.
ModelLists ==
    {<<>>,
     <<Prim("int"), StructT("anon.1"), StructT("main.Entity"), PtrTo(StructT("main.Child"))>>,
     <<NilType, StructT("main.Entity")>>,
     <<StructT("main.Stamp")>>}

\* The pattern the host application passes to Group.
GroupPattern == "/items/*"

\* &RouteOverride{gd, method, path}: nothing overridden yet
EmptyOverride ==
    [summary |-> Nil, description |-> Nil, tags |-> <<>>, deprecated |-> Nil,
     security |-> <<>>, requestBodyType |-> Nil, responses |-> <<>>]

\* The RouteMetadata introspect builds for a route: Method, Path, and the
\* Tags inferTags derives from the first path segment.
RouteMeta(key) ==
    CASE key = "GET /nodes" -> [method |-> "GET", path |-> "/nodes", tags |-> <<"Nodes">>]
      [] key = "POST /items" -> [method |-> "POST", path |-> "/items", tags |-> <<"Items">>]

\* generateSummary(route.Method, route.Path)
GenerateSummary(key) ==
    CASE key = "GET /nodes" -> "List all nodes"
      [] key = "POST /items" -> "Create a new item"

\* strconv.Itoa on a status code
Itoa(n) ==
    CASE n = 200 -> "200" [] n = 201 -> "201" [] n = 204 -> "204"
      [] n = 400 -> "400" [] n = 404 -> "404" [] n = 500 -> "500"

\* inferStatusCodes for a route without path parameters: code -> description
InferStatusCodes(method) ==
    LET first == CASE method = "POST" -> "201" :> "Resource created"
                   [] method \in {"PUT", "PATCH"} -> "200" :> "Resource updated"
                   [] method = "DELETE" -> "204" :> "Resource deleted"
                   [] OTHER -> "200" :> "Successful response"
        body == IF method \in {"POST", "PUT", "PATCH"}
                THEN Put(first, "400", "Invalid request body") ELSE first
    IN  Put(body, "500", "Internal server error")

\* &OperationObject{Tags, Summary, Responses} of buildOperation, with the
\* inferred responses, before the overrides
NewOperation(key) ==
    [tags |-> RouteMeta(key).tags, summary |-> GenerateSummary(key),
     description |-> "", deprecated |-> FALSE, security |-> <<>>,
     responses |-> InferStatusCodes(RouteMeta(key).method), requestBody |-> Nil]

\* matchGroupPattern, for the paths and the pattern of the model
MatchGroupPattern(path, pattern) ==
    \/ pattern = "/items/*" /\ path = "/items"
    \/ path = pattern

\* The orders in which `for k, v := range m` may visit the keys of a map.
RangeOrders(m) ==
    {o \in [1..Cardinality(DOMAIN m) -> DOMAIN m] :
        \A i, j \in DOMAIN o : o[i] = o[j] => i = j}

\* applyRouteOverrides, first loop: the group overrides that match the
\* path, visited in the order the range over gd.groupOverrides yields
RECURSIVE ApplyGroupOverrides(_, _, _, _)
ApplyGroupOverrides(path, op, groups, order) ==
    IF order = <<>> THEN op
    ELSE IF ~MatchGroupPattern(path, Head(order))
    THEN ApplyGroupOverrides(path, op, groups, Tail(order))
    ELSE ApplyGroupOverrides(path,
             [op EXCEPT !.tags = IF Len(groups[Head(order)].tags) > 0
                                 THEN groups[Head(order)].tags ELSE @,
                        !.security = @ \o groups[Head(order)].security],
             groups, Tail(order))

\* op.Responses = make(map); one entry per declared response
DeclaredResponses(responses) ==
    [c \in {Itoa(responses[i].statusCode) : i \in 1..Len(responses)} |->
        responses[CHOOSE i \in 1..Len(responses) :
            /\ Itoa(responses[i].statusCode) = c
            /\ \A j \in (i + 1)..Len(responses) :
                  Itoa(responses[j].statusCode) # c].description]

\* applyRouteOverrides, the route-level part without the request body, with
\* the group's tags and security left standing
RouteLevel_groupFirst(op, o) ==
    [op EXCEPT !.summary = IF IsNil(o.summary) THEN @ ELSE Val(o.summary),
               !.description = IF IsNil(o.description) THEN @ ELSE Val(o.description),
               !.tags = IF Len(@) > 0 THEN @ ELSE o.tags,
               !.deprecated = IF IsNil(o.deprecated) THEN @ ELSE Val(o.deprecated),
               !.security = @ \o o.security,
               !.responses = IF Len(o.responses) > 0
                             THEN DeclaredResponses(o.responses) ELSE @]

\* applyRouteOverrides, the route-level part without the request body:
\* summary, description, tags, deprecated, security, responses
RouteLevel(op, o) ==
    [op EXCEPT !.summary = IF IsNil(o.summary) THEN @ ELSE Val(o.summary),
               !.description = IF IsNil(o.description) THEN @ ELSE Val(o.description),
               !.tags = IF Len(o.tags) > 0 THEN o.tags ELSE @,
               !.deprecated = IF IsNil(o.deprecated) THEN @ ELSE Val(o.deprecated),
               !.security = IF Len(o.security) > 0 THEN o.security ELSE @,
               !.responses = IF Len(o.responses) > 0
                             THEN DeclaredResponses(o.responses) ELSE @]

\* op.RequestBody = the schema typeToSchema returned
SetRequestBody(op, r) == [st |-> r.st, op |-> [op EXCEPT !.requestBody = Some(r.sch)]]

\* applyRouteOverrides: the group loop, then the route override stored
\* under the key, if any, and its request body; overrides holds
\* gd.routeOverrides (route), gd.groupOverrides (group) and the order in
\* which the range visits the group overrides (order)
ApplyRouteOverrides(key, op, overrides, st) ==
    IF key \notin DOMAIN overrides.route
    THEN [st |-> st, op |-> ApplyGroupOverrides(RouteMeta(key).path, op, overrides.group,
                                                overrides.order)]
    ELSE IF IsNil(overrides.route[key].requestBodyType)
    THEN [st |-> st,
          op |-> RouteLevel(ApplyGroupOverrides(RouteMeta(key).path, op, overrides.group,
                                                overrides.order),
                            overrides.route[key])]
    ELSE SetRequestBody(
             RouteLevel(ApplyGroupOverrides(RouteMeta(key).path, op, overrides.group,
                                            overrides.order),
                        overrides.route[key]),
             TypeToSchema(Val(overrides.route[key].requestBodyType), st, {}))

\* buildOperation
BuildOperation(key, overrides, st) ==
    ApplyRouteOverrides(key, NewOperation(key), overrides, st)

\* assembleSpec's loop over the routes, from route i on
RECURSIVE RoutesFrom(_, _, _, _)
\* spec.Paths[path] gets the operation r.op, then the next route
AddOperation(i, paths, overrides, r) ==
    RoutesFrom(i + 1, Put(paths, RouterRoutes[i], r.op), overrides, r.st)

RoutesFrom(i, paths, overrides, st) ==
    IF st.crashed \/ i > Len(RouterRoutes) THEN [st |-> st, paths |-> paths]
    ELSE AddOperation(i, paths, overrides, BuildOperation(RouterRoutes[i], overrides, st))

\* spec := &OpenAPISpec{...} at the start of assembleSpec.  complete is set
\* when assembleSpec returns; regd records the names registered in the pass.
NewDoc == [complete |-> FALSE, schemas |-> <<>>, paths |-> <<>>, regd |-> {}]

\* gd.registry = newTypeRegistry() with the old registry kept
FreshRegistry_keep(old) == old

\* gd.registry = newTypeRegistry() in buildSpec
FreshRegistry(old) == NewTypeRegistry

\* --------------------------------------------------------------- state
VARIABLES
    config,          \* gd.config: DevMode, Models
    writer,          \* gd.specMu: the goroutine holding the write lock, 0 if none
    spec,            \* gd.spec: index into docs, 0 for nil
    built,           \* gd.built
    registry,        \* gd.registry
    routeOverrides,  \* gd.routeOverrides
    novr,            \* Route calls made so far
    docs,            \* the OpenAPISpec objects allocated so far
    pc,              \* where each goroutine is in getSpec / buildSpec
    cur,             \* the document each goroutine's assembleSpec is building
    ret,             \* the document getSpec returned to each goroutine
    synced,          \* the documents whose construction happens before each
                     \* goroutine's next step (its own, and those it acquired
                     \* through gd.specMu)
    released,        \* the documents published by an Unlock of gd.specMu
    observed,        \* how the caller of getSpec sees the returned document
    crashed,         \* the process died of a stack overflow
    regd,            \* names passed to Register on the current registry
    walks,           \* field walks by structToSchema on the current registry
    nops,            \* compiler calls made (compiler-only specification)
    last,            \* the last compiler call and what it returned
    results,         \* what typeToSchema returned for each root
    tagIn,           \* the struct field last handed to the field compiler
    tagOut,          \* its merged TagInfo and its compiled schema
    relIn,           \* the type last handed to detectRelationships
    relOut,          \* the relationships it returned
    heap,            \* a registry's map objects, its mutex and its callers
    groupOverrides,  \* gd.groupOverrides
    opOut            \* the operation buildOperation returned last

vars == <<config, writer, spec, built, registry, routeOverrides, novr, docs,
          pc, cur, ret, synced, released, observed, crashed, regd, walks,
          nops, last, results, tagIn, tagOut, relIn, relOut, heap,
          groupOverrides, opOut>>

memVars == <<synced, released, observed>>
engineVars == <<config, writer, spec, built, routeOverrides, novr, docs, pc, cur, ret,
                memVars>>
compilerVars == <<nops, last, results>>
\* The state of the parts checked alone: the field compiler, the relationship
\* detector and the registry's map objects.
tagVars == <<tagIn, tagOut, relIn, relOut, heap>>
overrideVars == <<groupOverrides, opOut>>

Threads == 1..NumThreads

NoCall == [op |-> "none", root |-> NilType, sch |-> SchemaZero]

\* No field handed to the field compiler yet.
NoField == Fld("", NilType, <<>>, <<>>, <<>>, <<>>)

\* newGinDocs
InitEngine ==
    /\ writer = 0
    /\ spec = 0
    /\ built = FALSE
    /\ registry = NewTypeRegistry
    /\ routeOverrides = <<>>
    /\ novr = 0
    /\ docs = <<>>
    /\ pc = [t \in Threads |-> "idle"]
    /\ cur = [t \in Threads |-> 0]
    /\ ret = [t \in Threads |-> 0]
    /\ synced = [t \in Threads |-> {}]
    /\ released = {}
    /\ observed = [t \in Threads |-> "none"]
    /\ crashed = FALSE
    /\ regd = {}
    /\ walks = NoWalks
    /\ nops = 0
    /\ last = NoCall
    /\ results = <<>>
    /\ tagOut = [done |-> FALSE, info |-> TagInfoZero, sch |-> SchemaZero]
    /\ relOut = [done |-> FALSE, rels |-> <<>>]
    /\ heap = [maps |-> <<<<>>>>, wr |-> 0, rd |-> {}, n |-> 0, by |-> "none",
               call |-> [t \in Threads |-> [pc |-> "idle", name |-> "", res |-> 0]],
               own |-> [t \in Threads |-> {}]]
    /\ groupOverrides = <<>>
    /\ opOut = [done |-> FALSE, key |-> "", op |-> <<>>]

Init ==
    /\ config \in [DevMode : BOOLEAN, Models : ModelLists]
    /\ tagIn = NoField
    /\ relIn = NilType
    /\ InitEngine

\* The registry after a compiler call, and the bookkeeping with it.
Store(st) ==
    /\ registry' = [schemas |-> st.schemas, seen |-> st.seen]
    /\ regd' = st.regd
    /\ walks' = st.walks
    /\ crashed' = st.crashed

Now == CompileState(registry, regd, walks)

(***************************************************************************)
(* What a goroutine can see of the document a read of gd.spec gave it.     *)
(* The document is complete for a reader whose read is ordered after its   *)
(* construction (the reader built it, or acquired gd.specMu after the      *)
(* builder's Unlock).  A read without that order is a data race with the   *)
(* builder's writes: the reader may see any part of them.                  *)
(***************************************************************************)
Outcomes(doc, view) ==
    IF doc = 0 THEN {"nil"}
    ELSE IF doc \in view THEN {"complete"}
    ELSE {"complete", "partial"}

\* getSpec, DevMode off: RLock, read gd.built, return gd.spec if built,
\* RUnlock.  No writer runs while the read lock is held.
CheckBuilt(t) ==
    /\ ~crashed
    /\ pc[t] = "idle"
    /\ ~config.DevMode
    /\ writer = 0
    /\ synced' = [synced EXCEPT ![t] = @ \cup released]
    /\ IF built
       THEN /\ ret' = [ret EXCEPT ![t] = spec]
            /\ \E o \in Outcomes(spec, synced[t] \cup released) :
                  observed' = [observed EXCEPT ![t] = o]
            /\ pc' = [pc EXCEPT ![t] = "done"]
       ELSE /\ pc' = [pc EXCEPT ![t] = "lock"]
            /\ UNCHANGED <<ret, observed>>
    /\ UNCHANGED <<config, writer, spec, built, registry, routeOverrides, novr, docs,
                   cur, released, crashed, regd, walks, compilerVars, tagVars, overrideVars>>

\* getSpec calls buildSpec, at once in DevMode and after the check of
\* gd.built otherwise.  buildSpec: Lock, the registry is replaced,
\* assembleSpec allocates its document.
BuildBegin(t) ==
    /\ ~crashed
    /\ \/ pc[t] = "idle" /\ config.DevMode
       \/ pc[t] = "lock"
    /\ writer = 0
    /\ writer' = t
    /\ registry' = FreshRegistry(registry)
    /\ regd' = {}
    /\ walks' = NoWalks
    /\ docs' = Append(docs, NewDoc)
    /\ cur' = [cur EXCEPT ![t] = Len(docs) + 1]
    /\ pc' = [pc EXCEPT ![t] = "assembling"]
    /\ synced' = [synced EXCEPT ![t] = @ \cup released]
    /\ UNCHANGED <<config, spec, built, routeOverrides, novr, ret, released, observed,
                   crashed, compilerVars, tagVars, overrideVars>>

\* assembleSpec after registerGORMModels panicked: the panic unwinds through
\* buildSpec's deferred Unlock and out of getSpec.
Panicked(t, m) ==
    /\ Store(m.st)
    /\ writer' = 0
    /\ pc' = [pc EXCEPT ![t] = "panicked"]
    /\ UNCHANGED <<docs, synced>>

\* assembleSpec after the route loop returned r: the registered schemas are
\* copied to the components and the document is returned.
Assembled(t, r) ==
    /\ Store(r.st)
    /\ writer' = writer
    /\ IF r.st.crashed
       THEN UNCHANGED <<docs, synced, pc>>
       ELSE /\ docs' = [docs EXCEPT ![cur[t]] =
                           [complete |-> TRUE, schemas |-> All(r.st),
                            paths |-> r.paths, regd |-> r.st.regd]]
            /\ synced' = [synced EXCEPT ![t] = @ \cup {cur[t]}]
            /\ pc' = [pc EXCEPT ![t] = "assign"]

\* assembleSpec after registerGORMModels returned m
AfterModels(t, m) ==
    IF m.panicked THEN Panicked(t, m)
    ELSE \E order \in RangeOrders(groupOverrides) :
             Assembled(t, RoutesFrom(1, <<>>,
                              [route |-> routeOverrides, group |-> groupOverrides,
                               order |-> order], m.st))

\* assembleSpec, run under the write lock: the models, the operations of
\* all routes with the overrides applied, the components.
Assemble(t) ==
    /\ ~crashed
    /\ pc[t] = "assembling"
    /\ AfterModels(t, RegisterGORMModels(config.Models, Now))
    /\ UNCHANGED <<config, spec, built, routeOverrides, novr, cur, ret, released,
                   observed, compilerVars, tagVars, overrideVars>>

\* buildSpec: gd.spec = <the document>, gd.built = true, deferred Unlock.
Assign(t) ==
    /\ ~crashed
    /\ pc[t] = "assign"
    /\ spec' = cur[t]
    /\ built' = TRUE
    /\ writer' = 0
    /\ pc' = [pc EXCEPT ![t] = "read"]
    /\ released' = released \cup synced[t]
    /\ UNCHANGED <<config, registry, routeOverrides, novr, docs, cur, ret, synced,
                   observed, crashed, regd, walks, compilerVars, tagVars, overrideVars>>

\* getSpec: return gd.spec, read without the lock.
ReadSpec(t) ==
    /\ ~crashed
    /\ pc[t] = "read"
    /\ ret' = [ret EXCEPT ![t] = spec]
    /\ \E o \in Outcomes(spec, synced[t]) : observed' = [observed EXCEPT ![t] = o]
    /\ pc' = [pc EXCEPT ![t] = "done"]
    /\ UNCHANGED <<config, writer, spec, built, registry, routeOverrides, novr, docs,
                   cur, synced, released, crashed, regd, walks, compilerVars, tagVars, overrideVars>>

\* gd.Route(key): a new override replaces the one stored under the key.
Route(key) ==
    /\ ~crashed
    /\ novr < MaxOverrides
    /\ novr' = novr + 1
    /\ routeOverrides' = Put(routeOverrides, key, EmptyOverride)
    /\ UNCHANGED <<config, writer, spec, built, registry, docs, pc, cur, ret, memVars,
                   crashed, regd, walks, compilerVars, tagVars, overrideVars>>

\* RouteOverride.RequestBody(v) on the override stored under the key.
RequestBody(key, d) ==
    /\ ~crashed
    /\ key \in DOMAIN routeOverrides
    /\ IsNil(routeOverrides[key].requestBodyType)
    /\ routeOverrides' = [routeOverrides EXCEPT ![key].requestBodyType = Some(d)]
    /\ UNCHANGED <<config, writer, spec, built, registry, novr, docs, pc, cur, ret,
                   memVars, crashed, regd, walks, compilerVars, tagVars, overrideVars>>

Next ==
    \/ \E t \in Threads : CheckBuilt(t)
    \/ \E t \in Threads : BuildBegin(t)
    \/ \E t \in Threads : Assemble(t)
    \/ \E t \in Threads : Assign(t)
    \/ \E t \in Threads : ReadSpec(t)
    \/ \E key \in Range(RouterRoutes) : Route(key)
    \/ \E key \in Range(RouterRoutes), d \in BodyTypes : RequestBody(key, d)

Spec == Init /\ [][Next]_vars

\* ------------------------------------------------- the compiler, alone
\* The types handed to typeToSchema.
CompileRoots ==
    {StructT("main.Node"), StructT("main.A"), StructT("a.Item"), StructT("b.Item"),
     StructT("main.EmbedSelf"), SliceOf(PtrTo(StructT("main.Child"))),
     MapOf(StructT("main.Entity")), Prim("string"),
     StructT("main.Account"), StructT("main.Deep"), StructT("main.Doc"),
     StructT("main.Worker"), StructT("main.Ping")}

\* The models handed to the variant generators.
VariantTypes == {"main.Entity", "main.Child", "main.Account", "main.EmbedSelf"}

\* One registry (newTypeRegistry), and no engine activity.
InitCompile ==
    /\ config = [DevMode |-> FALSE, Models |-> <<>>]
    /\ tagIn = NoField
    /\ relIn = NilType
    /\ InitEngine

\* The outcome r of a compiler call is recorded.
Finish(op, root, r) ==
    /\ Store(r.st)
    /\ last' = [op |-> op, root |-> root, sch |-> r.sch]
    /\ nops' = nops + 1

\* typeToSchema(d, registry)
CallTypeToSchema(d) ==
    /\ ~crashed
    /\ nops < MaxOps
    /\ Finish("full", d, TypeToSchema(d, Now, {}))
    /\ results' = Put(results, d, TypeToSchema(d, Now, {}).sch)
    /\ UNCHANGED <<engineVars, tagVars, overrideVars>>

\* generateCreateVariant(t, registry)
CallCreateVariant(tid) ==
    /\ ~crashed
    /\ nops < MaxOps
    /\ Finish("create", StructT(tid), GenerateCreateVariant(tid, Now))
    /\ UNCHANGED <<engineVars, results, tagVars, overrideVars>>

\* generateUpdateVariant(t, registry)
CallUpdateVariant(tid) ==
    /\ ~crashed
    /\ nops < MaxOps
    /\ Finish("update", StructT(tid), GenerateUpdateVariant(tid, Now))
    /\ UNCHANGED <<engineVars, results, tagVars, overrideVars>>

\* The models of a Config.Models holding one struct.
ModelTypes == {"main.Entity", "main.Child", "main.Account", "a.Item", "b.Item",
               "main.Memo"}

\* gd.registerGORMModels() with Config.Models = [tid{}], which returns nothing.
CallRegisterGORMModels(tid) ==
    /\ ~crashed
    /\ nops < MaxOps
    /\ Finish("models", StructT(tid),
              [st |-> RegisterGORMModels(<<StructT(tid)>>, Now).st, sch |-> SchemaZero])
    /\ UNCHANGED <<engineVars, results, tagVars, overrideVars>>

NextCompile ==
    \/ \E d \in CompileRoots : CallTypeToSchema(d)
    \/ \E tid \in VariantTypes : CallCreateVariant(tid)
    \/ \E tid \in VariantTypes : CallUpdateVariant(tid)

SpecCompile == InitCompile /\ [][NextCompile]_vars

\* One registry, and registerGORMModels called with one model after another.
SpecModels == InitCompile /\ [][\E tid \in ModelTypes : CallRegisterGORMModels(tid)]_vars

\* ------------------------------------------------ one field, alone
\* The struct fields handed to the field compiler: a field V of type string,
\* int, float64, []string, map[string]string or Child, with json:"v", a
\* binding tag of up to MaxClauses clauses, a gorm tag and a docs tag.
TagFields ==
    LET FieldTypes == {Prim("string"), Prim("int"), Prim("float64"),
                       SliceOf(Prim("string")), MapOf(Prim("string")),
                       StructT("main.Child")}
        BindingClauses ==
            {Cl("required"), Cl("email"), ClV("max=", "100"), ClV("max=", "abc"),
             ClV("min=", "0.5"), ClV("len=", "2"), ClV("gte=", "0"),
             ClV("lte=", "99.5"), ClL("oneof=", <<"a", "b">>), ClL("oneof=", <<>>)}
        BindingTags == UNION {[1..n -> BindingClauses] : n \in 0..MaxClauses}
        GORMTags == {<<>>, <<ClV("size:", "200")>>}
        DocsTags ==
            {<<>>, <<ClV("format:", "uri")>>, <<ClL("enum:", <<"x", "y">>)>>,
             <<ClL("enum:", <<>>)>>, <<ClV("format:", ""), Cl("deprecated")>>}
    IN  {Fld("V", d, <<Cl("v")>>, t, g, x) :
            d \in FieldTypes, t \in BindingTags, g \in GORMTags, x \in DocsTags}

\* The body of the field loop for one plain field f on a fresh registry:
\* the four tags are parsed and merged, and fieldToSchema compiles the type
\* under the merged TagInfo.
CompileField ==
    /\ ~tagOut.done
    /\ tagOut' = [done |-> TRUE, info |-> TagsOf(tagIn),
                  sch |-> FieldToSchema(tagIn.type, TagsOf(tagIn),
                              CompileState(NewTypeRegistry, {}, NoWalks), {}).sch]
    /\ UNCHANGED <<engineVars, registry, crashed, regd, walks, compilerVars, tagIn,
                   relIn, relOut, heap, overrideVars>>

\* One field of the host application, and no engine activity.
InitTags ==
    /\ config = [DevMode |-> FALSE, Models |-> <<>>]
    /\ tagIn \in TagFields
    /\ relIn = NilType
    /\ InitEngine

SpecTags == InitTags /\ [][CompileField]_vars

\* ------------------------------------------------- one model's relations
\* The types handed to detectRelationships: an int, and a struct Model (by
\* value or by pointer) with one field Owner (of a struct, slice, map or plain
\* type, exported or not, with a gorm tag) alone, or before or after a field
\* OwnerID.
RelModels ==
    LET FieldTypes ==
            {StructT("main.Child"), PtrTo(StructT("main.Child")),
             SliceOf(StructT("main.Child")), SliceOf(PtrTo(StructT("main.Child"))),
             PtrTo(SliceOf(StructT("main.Child"))), MapOf(StructT("main.Child")),
             StructT("time.Time"), StructT("main.Stamp"),
             Prim("string"), SliceOf(Prim("string"))}
        GORMTags == {<<>>, <<ClV("many2many:", "owners")>>, <<ClV("foreignKey:", "Ref")>>}
        Owner == {[Fld("Owner", d, <<>>, <<>>, g, <<>>) EXCEPT !.exported = e] :
                      d \in FieldTypes, g \in GORMTags, e \in BOOLEAN}
        OwnerID == Fld("OwnerID", Prim("uint"), <<>>, <<>>, <<>>, <<>>)
        FieldLists == UNION {{<<f>>, <<f, OwnerID>>, <<OwnerID, f>>} : f \in Owner}
    IN  {Prim("int") @@ [fields |-> <<>>]}
            \cup {StructT("main.Model") @@ [fields |-> l] : l \in FieldLists}
            \cup {PtrTo(StructT("main.Model")) @@ [fields |-> l] : l \in FieldLists}

\* detectRelationships(relIn)
Detect ==
    /\ ~relOut.done
    /\ relOut' = [done |-> TRUE, rels |-> DetectRelationships(relIn)]
    /\ UNCHANGED <<engineVars, registry, crashed, regd, walks, compilerVars, tagIn,
                   tagOut, relIn, heap, overrideVars>>

\* One model of the host application, and no engine activity.
InitRelations ==
    /\ config = [DevMode |-> FALSE, Models |-> <<>>]
    /\ tagIn = NoField
    /\ relIn \in RelModels
    /\ InitEngine

SpecRelations == InitRelations /\ [][Detect]_vars

\* ------------------------------------------- overrides and one operation
\* RouteOverride.Summary(s) on the override stored under the key.
Summary(key, s) ==
    /\ ~opOut.done
    /\ key \in DOMAIN routeOverrides
    /\ IsNil(routeOverrides[key].summary)
    /\ routeOverrides' = [routeOverrides EXCEPT ![key].summary = Some(s)]
    /\ UNCHANGED <<config, writer, spec, built, registry, novr, docs, pc, cur, ret,
                   memVars, crashed, regd, walks, compilerVars, tagVars, overrideVars>>

\* RouteOverride.Description(d)
Description(key, d) ==
    /\ ~opOut.done
    /\ key \in DOMAIN routeOverrides
    /\ IsNil(routeOverrides[key].description)
    /\ routeOverrides' = [routeOverrides EXCEPT ![key].description = Some(d)]
    /\ UNCHANGED <<config, writer, spec, built, registry, novr, docs, pc, cur, ret,
                   memVars, crashed, regd, walks, compilerVars, tagVars, overrideVars>>

\* RouteOverride.Tags(tags...)
Tags(key, tags) ==
    /\ ~opOut.done
    /\ key \in DOMAIN routeOverrides
    /\ routeOverrides[key].tags = <<>>
    /\ routeOverrides' = [routeOverrides EXCEPT ![key].tags = @ \o tags]
    /\ UNCHANGED <<config, writer, spec, built, registry, novr, docs, pc, cur, ret,
                   memVars, crashed, regd, walks, compilerVars, tagVars, overrideVars>>

\* RouteOverride.Deprecated(d)
Deprecated(key, d) ==
    /\ ~opOut.done
    /\ key \in DOMAIN routeOverrides
    /\ IsNil(routeOverrides[key].deprecated)
    /\ routeOverrides' = [routeOverrides EXCEPT ![key].deprecated = Some(d)]
    /\ UNCHANGED <<config, writer, spec, built, registry, novr, docs, pc, cur, ret,
                   memVars, crashed, regd, walks, compilerVars, tagVars, overrideVars>>

\* RouteOverride.Security(schemes...)
Security(key, schemes) ==
    /\ ~opOut.done
    /\ key \in DOMAIN routeOverrides
    /\ routeOverrides[key].security = <<>>
    /\ routeOverrides' = [routeOverrides EXCEPT ![key].security = @ \o schemes]
    /\ UNCHANGED <<config, writer, spec, built, registry, novr, docs, pc, cur, ret,
                   memVars, crashed, regd, walks, compilerVars, tagVars, overrideVars>>

\* RouteOverride.Response(statusCode, body, description), without a body
Response(key, statusCode, description) ==
    /\ ~opOut.done
    /\ key \in DOMAIN routeOverrides
    /\ routeOverrides[key].responses = <<>>
    /\ routeOverrides' = [routeOverrides EXCEPT ![key].responses =
            Append(@, [statusCode |-> statusCode, description |-> description])]
    /\ UNCHANGED <<config, writer, spec, built, registry, novr, docs, pc, cur, ret,
                   memVars, crashed, regd, walks, compilerVars, tagVars, overrideVars>>

\* gd.Group(pattern): a new &GroupOverride{gd, pattern} is stored
Group(pattern) ==
    /\ ~opOut.done
    /\ pattern \notin DOMAIN groupOverrides
    /\ groupOverrides' = Put(groupOverrides, pattern, [tags |-> <<>>, security |-> <<>>])
    /\ UNCHANGED <<config, writer, spec, built, registry, routeOverrides, novr, docs,
                   pc, cur, ret, memVars, crashed, regd, walks, compilerVars, tagVars,
                   opOut>>

\* GroupOverride.Tags(tags...)
GroupTags(pattern, tags) ==
    /\ ~opOut.done
    /\ pattern \in DOMAIN groupOverrides
    /\ groupOverrides[pattern].tags = <<>>
    /\ groupOverrides' = [groupOverrides EXCEPT ![pattern].tags = @ \o tags]
    /\ UNCHANGED <<config, writer, spec, built, registry, routeOverrides, novr, docs,
                   pc, cur, ret, memVars, crashed, regd, walks, compilerVars, tagVars,
                   opOut>>

\* GroupOverride.Security(schemes...)
GroupSecurity(pattern, schemes) ==
    /\ ~opOut.done
    /\ pattern \in DOMAIN groupOverrides
    /\ groupOverrides[pattern].security = <<>>
    /\ groupOverrides' = [groupOverrides EXCEPT ![pattern].security = @ \o schemes]
    /\ UNCHANGED <<config, writer, spec, built, registry, routeOverrides, novr, docs,
                   pc, cur, ret, memVars, crashed, regd, walks, compilerVars, tagVars,
                   opOut>>

\* buildOperation(route) for one route of the router
BuildOp(key) ==
    /\ ~opOut.done
    /\ \E order \in RangeOrders(groupOverrides) :
           opOut' = [done |-> TRUE, key |-> key,
                     op |-> BuildOperation(key, [route |-> routeOverrides,
                                                 group |-> groupOverrides,
                                                 order |-> order], Now).op]
    /\ UNCHANGED <<config, writer, spec, built, registry, routeOverrides, novr, docs,
                   pc, cur, ret, memVars, crashed, regd, walks, compilerVars, tagVars,
                   groupOverrides>>

NextOverrides ==
    \/ \E key \in Range(RouterRoutes) : Route(key) /\ ~opOut.done
    \/ \E key \in Range(RouterRoutes) : Summary(key, "Register a new item")
    \/ \E key \in Range(RouterRoutes) : Description(key, "Creates an item.")
    \/ \E key \in Range(RouterRoutes) : Tags(key, <<"Authentication">>)
    \/ \E key \in Range(RouterRoutes), d \in BOOLEAN : Deprecated(key, d)
    \/ \E key \in Range(RouterRoutes) : Security(key, <<"bearerAuth">>)
    \/ \E key \in Range(RouterRoutes), c \in {201, 404} : Response(key, c, "declared")
    \/ \E p \in {GroupPattern, "/items"} : Group(p)
    \/ \E p \in {GroupPattern, "/items"} :
           GroupTags(p, IF p = GroupPattern THEN <<"Admin">> ELSE <<"Items">>)
    \/ \E p \in {GroupPattern, "/items"} :
           GroupSecurity(p, IF p = GroupPattern THEN <<"apiKeyAuth">> ELSE <<"basicAuth">>)
    \/ \E key \in Range(RouterRoutes) : BuildOp(key)

\* The engine as newGinDocs leaves it; the host application registers
\* overrides, then an operation is built.
SpecOverrides == InitCompile /\ [][NextOverrides]_vars

\* ------------------------------------------ the registry's map, as objects
\* heap.maps[i] is the i-th map object allocated, from schema names to
\* *SchemaObject pointers (numbers); object 1 is r.schemas.  heap.wr is the
\* goroutine holding r.mu.Lock (0 for none), heap.rd the goroutines holding
\* r.mu.RLock, heap.call each goroutine's position in Register or All, and
\* heap.own the maps All returned to each goroutine.

\* All returning r.schemas itself
Snapshot_alias(maps) == [maps |-> maps, id |-> 1]

\* result := make(map[string]*SchemaObject, len(r.schemas));
\* for k, v := range r.schemas { result[k] = v }
Snapshot(maps) == [maps |-> Append(maps, maps[1]), id |-> Len(maps) + 1]

\* TypeRegistry.Register(name, schema) by goroutine t, schema a new object:
\* r.mu.Lock(); r.schemas[name] = schema; the deferred r.mu.Unlock().
RegistryRegister(t, name) ==
    /\ \/ /\ heap.call[t].pc = "idle" /\ heap.n < MaxOps
          /\ heap.wr = 0 /\ heap.rd = {}
          /\ heap' = [heap EXCEPT !.wr = t, !.n = @ + 1, !.by = "lock",
                                  !.call[t] = [pc |-> "store", name |-> name, res |-> 0]]
       \/ /\ heap.call[t].pc = "store" /\ heap.call[t].name = name
          /\ heap' = [heap EXCEPT !.maps[1] = Put(@, name, heap.n), !.by = "register",
                                  !.call[t].pc = "unlock"]
       \/ /\ heap.call[t].pc = "unlock" /\ heap.call[t].name = name
          /\ heap' = [heap EXCEPT !.wr = 0, !.by = "unlock", !.call[t].pc = "idle"]
    /\ UNCHANGED <<engineVars, registry, crashed, regd, walks, compilerVars, tagIn,
                   tagOut, relIn, relOut, overrideVars>>

\* TypeRegistry.All() by goroutine t: r.mu.RLock(); the copy; the deferred
\* r.mu.RUnlock() and the return of the result.
RegistryAll(t) ==
    /\ \/ /\ heap.call[t].pc = "idle" /\ heap.n < MaxOps
          /\ heap.wr = 0
          /\ heap' = [heap EXCEPT !.rd = @ \cup {t}, !.n = @ + 1, !.by = "rlock",
                                  !.call[t].pc = "copy"]
       \/ /\ heap.call[t].pc = "copy"
          /\ heap' = [heap EXCEPT !.maps = Snapshot(@).maps, !.by = "copy",
                                  !.call[t] = [pc |-> "return", name |-> "",
                                               res |-> Snapshot(heap.maps).id]]
       \/ /\ heap.call[t].pc = "return"
          /\ heap' = [heap EXCEPT !.rd = @ \ {t}, !.by = "return",
                                  !.own[t] = @ \cup {heap.call[t].res},
                                  !.call[t].pc = "idle"]
    /\ UNCHANGED <<engineVars, registry, crashed, regd, walks, compilerVars, tagIn,
                   tagOut, relIn, relOut, overrideVars>>

\* The caller t of All stores its own schema object under a name in a map
\* it was returned.
CallerWrite(t, id, name) ==
    /\ heap.call[t].pc = "idle" /\ heap.n < MaxOps
    /\ id \in heap.own[t]
    /\ heap' = [heap EXCEPT !.maps[id] = Put(@, name, 0), !.n = @ + 1, !.by = "caller"]
    /\ UNCHANGED <<engineVars, registry, crashed, regd, walks, compilerVars, tagIn,
                   tagOut, relIn, relOut, overrideVars>>

NextRegistry ==
    \/ \E t \in Threads, name \in {"Node", "Child"} : RegistryRegister(t, name)
    \/ \E t \in Threads : RegistryAll(t)
    \/ \E t \in Threads, id \in 1..Len(heap.maps), name \in {"Node", "Child"} :
           CallerWrite(t, id, name)

\* One registry shared by the goroutines.
SpecRegistry == InitCompile /\ [][NextRegistry]_vars

\* ---------------------------------------------------------- properties
Finished == {i \in 1..Len(docs) : docs[i].complete}

\* C1: with DevMode on, every document getSpec returns is the complete
\* result of a finished assembleSpec pass, the caller's own or a newer one:
\* never nil, never a document the caller can see only in part.
C1_ReturnsCompleteDocument ==
    \A t \in Threads :
        (config.DevMode /\ pc[t] = "done") =>
            /\ ret[t] \in Finished
            /\ ret[t] >= cur[t]
            /\ observed[t] = "complete"

\* C2: with DevMode off, the document is assembled exactly once for every
\* interleaving of getSpec calls, and every caller is served that document.
C2_BuiltExactlyOnce ==
    ~config.DevMode =>
        /\ Cardinality(Finished) <= 1
        /\ \A t, u \in Threads : (pc[t] = "done" /\ pc[u] = "done") => ret[t] = ret[u]

\* C3: for every struct type graph with a direct or indirect self-reference
\* typeToSchema terminates, the type is registered when the call returns and
\* the field that closes the cycle is a reference to the registered name.
C3_SelfReferenceTerminates ==
    /\ ~crashed
    /\ StructT("main.Node") \in DOMAIN results =>
          /\ results[StructT("main.Node")] = SchemaRef("Node")
          /\ Has(registry, "Node")
          /\ registry.schemas["Node"].props["children"].items = Some(SchemaRef("Node"))
    /\ StructT("main.A") \in DOMAIN results =>
          /\ results[StructT("main.A")] = SchemaRef("A")
          /\ Has(registry, "A") /\ Has(registry, "B")
          /\ registry.schemas["B"].props["as"].items = Some(SchemaRef("A"))
    /\ StructT("main.EmbedSelf") \in DOMAIN results =>
          /\ results[StructT("main.EmbedSelf")] = SchemaRef("EmbedSelf")
          /\ Has(registry, "EmbedSelf")

\* C4: within one registry a struct type is compiled at most once, and after
\* any sequence of compilations the registry holds exactly one entry per
\* compiled type.
C4_OneEntryPerCompiledType ==
    ~crashed =>
        /\ \A tid \in StructIds : walks[tid] <= 1
        /\ Cardinality(DOMAIN registry.schemas) =
               Cardinality({tid \in StructIds : walks[tid] >= 1})

\* The property names of the schemas a reference resolves to in the registry.
TargetProps(sch) ==
    {DOMAIN registry.schemas[n].props : n \in {m \in DOMAIN registry.schemas : RefPath(m) = sch.ref}}

\* C5: two distinct struct types with the same bare name, compiled into one
\* registry, get two different schema names; each schema holds its own
\* type's fields and each type's reference points to its own schema.
C5_SameNameTypesKeptApart ==
    (~crashed /\ {StructT("a.Item"), StructT("b.Item")} \subseteq DOMAIN results) =>
        /\ results[StructT("a.Item")].ref # results[StructT("b.Item")].ref
        /\ TargetProps(results[StructT("a.Item")]) = {{"sku", "inner"}}
        /\ TargetProps(results[StructT("b.Item")]) = {{"qty"}}

\* C6: in DevMode every getSpec call performs a build of its own; every
\* build, in either mode, starts from a new empty registry; the components
\* of a built document are exactly the schemas registered during its pass.
C6_FreshRegistryPerBuild ==
    /\ \A t \in Threads :
          (config.DevMode /\ pc[t] = "done") =>
              /\ cur[t] \in Finished
              /\ \A u \in Threads \ {t} : cur[u] # cur[t]
    /\ \A t \in Threads : pc[t] = "assembling" => registry = NewTypeRegistry
    /\ \A i \in Finished : DOMAIN docs[i].schemas = docs[i].regd

\* DevMode: a second build has finished, with schemas in its components.
C6_Witness ==
    /\ config.DevMode
    /\ Len(docs) >= 2
    /\ docs[Len(docs)].complete
    /\ docs[Len(docs)].schemas # <<>>
    /\ \E t \in Threads : pc[t] = "done" /\ cur[t] = Len(docs)

\* The exported fields of a struct with the fields of its embedded structs
\* hoisted, to nesting depth n.
RECURSIVE FlatFields(_, _)
FlatFields(tid, n) ==
    UNION {IF ~f.exported THEN {}
           ELSE IF f.anonymous /\ Kind(Deref(f.type)) = "struct"
                   /\ IsNil(SpecialTypeSchema(Deref(f.type)))
                THEN (IF n = 0 THEN {} ELSE FlatFields(Deref(f.type).id, n - 1))
                ELSE {f} : f \in Range(StructTypes[tid].fields)}

AllFields(tid) == FlatFields(tid, Cardinality(StructIds))

\* The directive of the field marks it primary key, auto-create-time or
\* auto-update-time.
Marked(f) ==
    \/ ParseGORMTag(f.gorm).PrimaryKey
    \/ ParseGORMTag(f.gorm).AutoCreateTime
    \/ ParseGORMTag(f.gorm).AutoUpdateTime

JSONNameOf(f) == IF ParseJSONTag(f.json).name = "" THEN f.name ELSE ParseJSONTag(f.json).name

\* C8: the Create variant of a model omits every field whose directive marks
\* it primary key, auto-create-time or auto-update-time, also a field of an
\* embedded struct; the Create variant of Entity {ID primarykey, Name,
\* CreatedAt autoCreateTime} has exactly the property name.
C8_CreateOmitsMarkedFields ==
    (last.op = "create" /\ ~crashed) =>
        /\ \A f \in AllFields(last.root.id) :
              Marked(f) => JSONNameOf(f) \notin DOMAIN last.sch.props
        /\ last.root = StructT("main.Entity") => DOMAIN last.sch.props = {"name"}

\* The Create variant of Child, whose embedded Base holds the marked fields.
C8_Witness ==
    /\ last.op = "create"
    /\ last.root = StructT("main.Child")
    /\ ~crashed
    /\ DOMAIN last.sch.props = {"title"}
    /\ \E f \in AllFields("main.Child") : Marked(f) /\ f.name = "ModifiedOn"

\* The properties a variant keeps: the fields the exclusion predicate and
\* the skip directives leave.
KeptProps(tid) ==
    {JSONNameOf(f) : f \in {g \in AllFields(tid) :
        /\ ~ShouldSkipForCreate(g)
        /\ ~ParseJSONTag(g.json).skip
        /\ ~ParseGORMTag(g.gorm).GORMSkip
        /\ ~ParseDocsTag(g.docs).Hidden}}

\* C9: the Update variant of a model contains every field the exclusion
\* predicate does not exclude, the same set as the Create variant, and its
\* required list is empty whatever validation tags the fields carry.
C9_UpdateAllOptional ==
    (last.op = "update" /\ ~crashed) =>
        /\ last.sch.required = <<>>
        /\ DOMAIN last.sch.props = KeptProps(last.root.id)
        /\ DOMAIN last.sch.props =
               DOMAIN GenerateCreateVariant(last.root.id, Now).sch.props

\* The Update variant of Child: Title carries binding:"required".
C9_Witness ==
    /\ last.op = "update"
    /\ last.root = StructT("main.Child")
    /\ ~crashed
    /\ "title" \in DOMAIN last.sch.props
    /\ TagsOf(StructTypes["main.Child"].fields[2]).Required

\* The entries of Config.Models that are named struct types.
NamedModels ==
    {StructTypes[Deref(m).id].name :
        m \in {x \in Range(config.Models) :
                  /\ x # NilType
                  /\ Kind(Deref(x)) = "struct"
                  /\ StructTypes[Deref(x).id].name # ""}}

\* C10: after a build whose Config.Models holds a named struct type T the
\* components contain T, CreateT and UpdateT; an entry that is not a struct
\* or has no name is skipped and does not keep the others from being
\* registered.
C10_ModelsRegistered ==
    /\ \A t \in Threads : pc[t] # "panicked"
    /\ \A i \in Finished : \A name \in NamedModels :
          {name, "Create" \o name, "Update" \o name} \subseteq DOMAIN docs[i].schemas


\* The last clause with key k in a tag: a later clause overwrites an
\* earlier one.  The clause without value and items if there is none.
LastClause(tag, k) ==
    LET at == {i \in 1..Len(tag) : tag[i].k = k}
    IN  IF at = {} THEN Cl(k) ELSE tag[CHOOSE i \in at : \A j \in at : j <= i]

\* Some clause of the tag has key k.
HasClause(tag, k) == \E i \in 1..Len(tag) : tag[i].k = k

\* C11: for format and enum the docs namespace wins over the binding
\* namespace: a format or a non-empty enum written in the docs tag is the
\* merged one (and, on a field compiled inline, the compiled one) whatever
\* the binding tag says, and a field whose docs tag has no format or no enum
\* clause keeps the binding tag's value.
C11_DocsOverridesBinding ==
    tagOut.done =>
        /\ LastClause(tagIn.docs, "format:").v # "" =>
              /\ tagOut.info.Format = LastClause(tagIn.docs, "format:").v
              /\ IsRef(tagOut.sch) \/ tagOut.sch.format = LastClause(tagIn.docs, "format:").v
        /\ LastClause(tagIn.docs, "enum:").list # <<>> =>
              /\ tagOut.info.Enum = LastClause(tagIn.docs, "enum:").list
              /\ IsRef(tagOut.sch) \/ tagOut.sch.enum = LastClause(tagIn.docs, "enum:").list
        /\ ~HasClause(tagIn.docs, "format:") =>
              tagOut.info.Format = ParseBindingTag(tagIn.binding).Format
        /\ ~HasClause(tagIn.docs, "enum:") =>
              tagOut.info.Enum = ParseBindingTag(tagIn.binding).Enum

\* A field with binding:"email" and docs:"format:uri" was compiled to uri.
C11_Witness ==
    /\ tagOut.done
    /\ HasClause(tagIn.binding, "email")
    /\ tagIn.docs = <<ClV("format:", "uri")>>
    /\ tagOut.sch.format = "uri"


\* C12: on a string field the gorm size:N becomes maxLength only when the
\* binding tag set no maximum length; when it did (max= or len=), maxLength
\* is the binding value, and without either maxLength is absent.
C12_SizeOnlyWithoutBindingMax ==
    (tagOut.done /\ tagIn.type = Prim("string")) =>
        IF ~IsNil(ParseBindingTag(tagIn.binding).MaxLength)
        THEN tagOut.sch.maxLength = ParseBindingTag(tagIn.binding).MaxLength
        ELSE tagOut.sch.maxLength = Atoi(LastClause(tagIn.gorm, "size:").v)

\* A string field with binding max=100 and gorm size:200 was compiled, and
\* its maxLength is 100.
C12_Witness ==
    /\ tagOut.done
    /\ tagIn.type = Prim("string")
    /\ tagIn.binding = <<ClV("max=", "100")>>
    /\ tagIn.gorm = <<ClV("size:", "200")>>
    /\ tagOut.sch.maxLength = Some(100)


\* C13: a string field tagged required with a maximum length N compiles into
\* an object schema whose required list holds the field's emitted name and
\* whose property for it has maxLength = N; Entity.Name (required, max=100)
\* gives required name and maxLength 100.
C13_RequiredWithMaxLength ==
    \A tid \in StructIds :
        (walks[tid] > 0 /\ SchemaName(tid) \in DOMAIN registry.schemas) =>
            \A f \in Range(StructTypes[tid].fields) :
                (/\ f.exported /\ ~f.anonymous
                 /\ f.type = Prim("string")
                 /\ f.json # <<Cl("-")>>
                 /\ HasClause(f.binding, "required")
                 /\ ~IsNil(Numeral(LastClause(f.binding, "max=").v))) =>
                    /\ JSONNameOf(f) \in Range(registry.schemas[SchemaName(tid)].required)
                    /\ JSONNameOf(f) \in DOMAIN registry.schemas[SchemaName(tid)].props
                    /\ registry.schemas[SchemaName(tid)].props[JSONNameOf(f)].maxLength
                           = Some(Val(Numeral(LastClause(f.binding, "max=").v)).w)

\* Entity was compiled: name is required and has maxLength 100.
C13_Witness ==
    /\ walks["main.Entity"] > 0
    /\ "Entity" \in DOMAIN registry.schemas
    /\ "name" \in Range(registry.schemas["Entity"].required)
    /\ registry.schemas["Entity"].props["name"].maxLength = Some(100)


\* The bound a binding tag declares with its one clause of the keys ks, if
\* it has exactly one and its value is a numeral (a whole one for an int
\* field); Nil otherwise.
DeclaredBound(f, ks) ==
    LET at == {i \in 1..Len(f.binding) : f.binding[i].k \in ks}
        v == f.binding[CHOOSE i \in at : TRUE].v
    IN  IF Cardinality(at) # 1 THEN Nil
        ELSE IF f.type = Prim("int") /\ IsNil(Atoi(v)) THEN Nil
        ELSE Numeral(v)

\* C14: for a field of integer or number kind declared with a numeric lower
\* and/or upper bound in the binding tag (min=, max=, gte=, lte=), the
\* compiled minimum and maximum equal the declared values exactly.
C14_BoundsRoundTrip ==
    (tagOut.done /\ tagIn.type \in {Prim("int"), Prim("float64")}) =>
        /\ ~IsNil(DeclaredBound(tagIn, {"min=", "gte="})) =>
              tagOut.sch.minimum = DeclaredBound(tagIn, {"min=", "gte="})
        /\ ~IsNil(DeclaredBound(tagIn, {"max=", "lte="})) =>
              tagOut.sch.maximum = DeclaredBound(tagIn, {"max=", "lte="})


\* The field with the clauses of its binding and docs tags that cannot be
\* used removed: a numeric bound whose value is no numeral, an enum with no
\* items.
WellFormed(f) ==
    LET Malformed(c) ==
            \/ c.k \in {"min=", "max=", "gte=", "gt=", "lte=", "lt=", "len="}
                  /\ IsNil(Numeral(c.v))
            \/ c.k \in {"oneof=", "enum:"} /\ c.list = <<>>
    IN  [f EXCEPT !.binding = SelectSeq(@, LAMBDA c : ~Malformed(c)),
                  !.docs = SelectSeq(@, LAMBDA c : ~Malformed(c))]

\* C15: a clause with an unparseable numeric bound or an empty enum list, in
\* the binding or the docs tag, contributes nothing: the merged directive and
\* the compiled schema are those of the same field without that clause, so
\* the attribute stays unset or keeps the value another namespace supplied,
\* and the other clauses take effect.
C15_MalformedClauseDropped ==
    tagOut.done =>
        /\ \A attr \in {"Required", "Enum", "Format", "Minimum", "Maximum",
                         "MinLength", "MaxLength", "GORMSize", "Deprecated"} :
              tagOut.info[attr] = TagsOf(WellFormed(tagIn))[attr]
        /\ tagOut.sch = FieldToSchema(tagIn.type, TagsOf(WellFormed(tagIn)),
                             CompileState(NewTypeRegistry, {}, NoWalks), {}).sch


\* The object schema the last compiler call built for its root struct: the
\* registered schema after typeToSchema, the returned one after a variant
\* generator.
LastObject ==
    IF last.op = "full" THEN registry.schemas[SchemaName(last.root.id)] ELSE last.sch

\* The last compiler call compiled a struct type and returned; the type is
\* the only one of its name, so that the registered schema is its own.
CompiledStruct ==
    /\ last.op \in {"full", "create", "update"}
    /\ ~crashed
    /\ last.root.wrap = <<>> /\ last.root.base = "struct"
    /\ \A t \in StructIds : SchemaName(t) = SchemaName(last.root.id) => t = last.root.id
    /\ last.op = "full" => SchemaName(last.root.id) \in DOMAIN registry.schemas

\* The field is an embedded (anonymous) struct that is not a special type.
EmbeddedStruct(f) ==
    /\ f.anonymous
    /\ Kind(Deref(f.type)) = "struct"
    /\ IsNil(SpecialTypeSchema(Deref(f.type)))

\* The directive of the field flags it skip (json:"-", gorm:"-") or hidden.
Flagged(f) ==
    \/ ParseJSONTag(f.json).skip
    \/ ParseGORMTag(f.gorm).GORMSkip
    \/ ParseDocsTag(f.docs).Hidden

\* C16: a struct field whose directive is flagged skip or hidden contributes
\* no property and no required entry to the compiled object schema, in the
\* full schema and in the Create and Update variants.
C16_FlaggedFieldsAbsent ==
    CompiledStruct =>
        \A f \in Range(StructTypes[last.root.id].fields) :
            (f.exported /\ Flagged(f)) =>
                \A n \in (IF EmbeddedStruct(f)
                          THEN {JSONNameOf(g) : g \in AllFields(Deref(f.type).id)}
                          ELSE {JSONNameOf(f)}) :
                    /\ n \notin DOMAIN LastObject.props
                    /\ n \notin Range(LastObject.required)


\* The fields an object of the struct type shows, as encoding/json promotes
\* them: its exported named fields and, to nesting depth n, those of its
\* embedded structs, whether the embedded type's name is exported or not.
\* Embedded fields flagged skip are left aside (C16 is about them).
RECURSIVE Promoted(_, _)
Promoted(tid, n) ==
    UNION {IF EmbeddedStruct(f)
           THEN (IF n = 0 \/ Flagged(f) THEN {} ELSE Promoted(Deref(f.type).id, n - 1))
           ELSE IF f.exported /\ ~Flagged(f) THEN {f} ELSE {}
           : f \in Range(StructTypes[tid].fields)}

\* C17: the fields of an embedded struct, at any nesting depth, are hoisted
\* into the embedding object's schema: each appears as a property of the
\* parent, and in its required list if required, and the embedded struct
\* itself yields no property.
C17_EmbeddedFieldsHoisted ==
    (CompiledStruct /\ last.op = "full") =>
        /\ \A g \in Promoted(last.root.id, Cardinality(StructIds)) :
              /\ JSONNameOf(g) \in DOMAIN LastObject.props
              /\ TagsOf(g).Required => JSONNameOf(g) \in Range(LastObject.required)
        /\ \A f \in Range(StructTypes[last.root.id].fields) :
              EmbeddedStruct(f) => f.name \notin DOMAIN LastObject.props


\* C19: a field whose kind has no explicit schema mapping (channel,
\* function, complex number, as well as interface) compiles to the open
\* schema with no type constraint, and the enclosing struct's other fields
\* are compiled all the same.
C19_UnmappedKindIsOpen ==
    (CompiledStruct /\ last.op = "full") =>
        \A f \in Range(StructTypes[last.root.id].fields) :
            (f.exported /\ ~f.anonymous /\ ~Flagged(f)) =>
                /\ JSONNameOf(f) \in DOMAIN LastObject.props
                /\ Kind(Deref(f.type)) \in
                       {"chan", "func", "complex64", "complex128", "interface"} =>
                       LastObject.props[JSONNameOf(f)] = SchemaZero


\* C20: flattening of embedded struct fields terminates for every type
\* graph: a call of typeToSchema, generateCreateVariant or
\* generateUpdateVariant returns, also for a struct that embeds a pointer to
\* its own type and for two structs that embed each other by pointer.
C20_FlatteningTerminates ==
    \A op \in {"full", "create", "update"} : last.op = op => ~crashed


\* C18: overrides have final precedence when an operation is built: the
\* summary, description, tags, deprecated flag and security a route-level
\* override sets are the operation's values whatever the group override and
\* inference produced, and when it declares responses the operation's
\* responses are exactly the declared status codes.
C18_RouteOverrideIsFinal ==
    (opOut.done /\ opOut.key \in DOMAIN routeOverrides) =>
        /\ ~IsNil(routeOverrides[opOut.key].summary) =>
              opOut.op.summary = Val(routeOverrides[opOut.key].summary)
        /\ ~IsNil(routeOverrides[opOut.key].description) =>
              opOut.op.description = Val(routeOverrides[opOut.key].description)
        /\ routeOverrides[opOut.key].tags # <<>> =>
              opOut.op.tags = routeOverrides[opOut.key].tags
        /\ ~IsNil(routeOverrides[opOut.key].deprecated) =>
              opOut.op.deprecated = Val(routeOverrides[opOut.key].deprecated)
        /\ routeOverrides[opOut.key].security # <<>> =>
              opOut.op.security = routeOverrides[opOut.key].security
        /\ routeOverrides[opOut.key].responses # <<>> =>
              DOMAIN opOut.op.responses =
                  {Itoa(r.statusCode) : r \in Range(routeOverrides[opOut.key].responses)}

\* POST /items was built under a group override with tags and security and a
\* route override with summary, tags, security and a declared response; the
\* operation carries the route override's values and the one declared code.
C18_Witness ==
    /\ opOut.done
    /\ opOut.key = "POST /items"
    /\ GroupPattern \in DOMAIN groupOverrides
    /\ groupOverrides[GroupPattern].tags = <<"Admin">>
    /\ groupOverrides[GroupPattern].security = <<"apiKeyAuth">>
    /\ opOut.key \in DOMAIN routeOverrides
    /\ opOut.op.summary = "Register a new item"
    /\ opOut.op.tags = <<"Authentication">>
    /\ opOut.op.security = <<"bearerAuth">>
    /\ DOMAIN opOut.op.responses = {"404"}


\* C21: the variants reuse the per-field compiled result: every property of
\* the Create variant of a model equals the property of the same name in the
\* model's full schema, and the Create variant's required list is the full
\* schema's required list restricted to the Create variant's properties.
C21_CreateReusesFieldSchemas ==
    (/\ CompiledStruct /\ last.op = "create"
     /\ SchemaName(last.root.id) \in DOMAIN registry.schemas) =>
        /\ \A n \in DOMAIN last.sch.props :
              /\ n \in DOMAIN registry.schemas[SchemaName(last.root.id)].props
              /\ last.sch.props[n] = registry.schemas[SchemaName(last.root.id)].props[n]
        /\ last.sch.required =
               SelectSeq(registry.schemas[SchemaName(last.root.id)].required,
                         LAMBDA n : n \in DOMAIN last.sch.props)

\* The Create variant of Child was generated with Child registered: title
\* is its one property, required, with the maxLength of the full schema.
C21_Witness ==
    /\ CompiledStruct /\ last.op = "create"
    /\ last.root = StructT("main.Child")
    /\ "Child" \in DOMAIN registry.schemas
    /\ last.sch.required = <<"title">>
    /\ last.sch.props["title"].maxLength = Some(200)

\* C22: generating the variants of a model whose Create<Name> and
\* Update<Name> entries are already in the registry leaves the registry as it
\* was: the entries are not replaced.
C22_ExistingVariantsKept ==
    [][(/\ last'.op = "models" /\ nops' = nops + 1
        /\ "Create" \o SchemaName(last'.root.id) \in DOMAIN registry.schemas
        /\ "Update" \o SchemaName(last'.root.id) \in DOMAIN registry.schemas)
           => registry' = registry]_vars

\* C23: a compiled field carries minimum or maximum only when it is an
\* integer or a number and minLength or maxLength only when it is a string;
\* on every other field (array, object, reference) the bounds of the tags are
\* dropped, and the schema is the one the field compiles to without them.
C23_BoundsFitKind ==
    LET sch == tagOut.sch
        Unbounded(s) == IsNil(s.minimum) /\ IsNil(s.maximum)
                            /\ IsNil(s.minLength) /\ IsNil(s.maxLength)
        Plain == [tagOut.info EXCEPT !.Minimum = Nil, !.Maximum = Nil, !.MinLength = Nil,
                                     !.MaxLength = Nil, !.GORMSize = Nil]
    IN  tagOut.done =>
            /\ ~(IsNil(sch.minimum) /\ IsNil(sch.maximum)) => sch.type \in {"integer", "number"}
            /\ ~(IsNil(sch.minLength) /\ IsNil(sch.maxLength)) => sch.type = "string"
            /\ sch.type \notin {"integer", "number", "string"} =>
                  /\ Unbounded(sch)
                  /\ \A i \in 1..Len(sch.items) : Unbounded(sch.items[i])
                  /\ \A i \in 1..Len(sch.addl) : Unbounded(sch.addl[i])
                  /\ sch = FieldToSchema(tagIn.type, Plain,
                               CompileState(NewTypeRegistry, {}, NoWalks), {}).sch

\* A []string field with binding:"max=100" and gorm:"size:200" was compiled:
\* the merged tags hold the bounds and the array schema holds none.
C23_Witness ==
    /\ tagOut.done
    /\ tagIn.type = SliceOf(Prim("string"))
    /\ tagIn.binding = <<ClV("max=", "100")>>
    /\ tagIn.gorm = <<ClV("size:", "200")>>
    /\ ~IsNil(tagOut.info.Maximum) /\ ~IsNil(tagOut.info.MaxLength)
    /\ ~IsNil(tagOut.info.GORMSize)
    /\ tagOut.sch.type = "array"
    /\ IsNil(tagOut.sch.maximum) /\ IsNil(tagOut.sch.maxLength)

\* C24: detectRelationships reports, for each exported field in order: a
\* slice of structs or of pointers to structs as one-to-many (many-to-many
\* under a many2many hint), a struct that is not a well-known value type as
\* one-to-one (many-to-one when a field <FieldName>ID exists or under a
\* foreignKey hint), and nothing for any other field.
C24_RelationshipsClassified ==
    LET fields == Deref(relIn).fields
        Hint(f, key) == \E i \in 1..Len(f.gorm) : f.gorm[i].k = key
        Class(f, ft) ==
            IF ~f.exported THEN "none"
            ELSE IF Kind(ft) = "slice" /\ Kind(Deref(Elem(ft))) = "struct"
            THEN IF Hint(f, "many2many:") THEN "RelMany2Many" ELSE "RelHasMany"
            ELSE IF Kind(ft) = "struct" /\ StructTypes[ft.id].special = ""
            THEN IF Hint(f, "foreignKey:")
                    \/ \E j \in 1..Len(fields) : fields[j].name = f.name \o "ID"
                 THEN "RelBelongsTo" ELSE "RelHasOne"
            ELSE "none"
        Related == SelectSeq(fields, LAMBDA f : Class(f, Deref(f.type)) # "none")
    IN  (relOut.done /\ Kind(Deref(relIn)) = "struct") =>
            /\ Len(relOut.rels) = Len(Related)
            /\ \A i \in 1..Len(Related) :
                  /\ relOut.rels[i].FieldName = Related[i].name
                  /\ relOut.rels[i].Type = Class(Related[i], Deref(Related[i].type))

\* C25: the map All returns is the registry's content at the time of the
\* call and is an object of its own: a later Register leaves every returned
\* map as it was, and a caller's change to a returned map leaves the
\* registry's map as it was, whatever the interleaving.
C25_AllReturnsSnapshot ==
    [][/\ heap'.by = "register" =>
              \A t \in Threads : \A id \in heap.own[t] : heap'.maps[id] = heap.maps[id]
       /\ heap'.by = "caller" => heap'.maps[1] = heap.maps[1]
       /\ heap'.by = "return" =>
              \A t \in Threads : \A id \in heap'.own[t] \ heap.own[t] :
                  heap'.maps[id] = heap'.maps[1]]_vars

\* A goroutine holds a returned map, a Register has stored since, and the
\* returned map does not have the new entry.
C25_Witness ==
    /\ heap.by = "register"
    /\ \E t \in Threads : \E id \in heap.own[t] :
           DOMAIN heap.maps[id] # DOMAIN heap.maps[1]

\* The $ref values emitted anywhere in a schema.
RECURSIVE RefsIn(_)
RefsIn(s) ==
    (IF s.ref # "" THEN {s.ref} ELSE {})
        \cup UNION {RefsIn(s.items[i]) : i \in 1..Len(s.items)}
        \cup UNION {RefsIn(s.props[n]) : n \in DOMAIN s.props}
        \cup UNION {RefsIn(s.addl[i]) : i \in 1..Len(s.addl)}
        \cup UNION {RefsIn(s.allOf[i]) : i \in 1..Len(s.allOf)}

C27_OverridesExcludeBuild ==
    [][(routeOverrides' # routeOverrides \/ groupOverrides' # groupOverrides) =>
           \A t \in Threads : pc[t] # "assembling"]_vars

\* C28: an operation built under group overrides has the same tags and the
\* same security requirements, in the same order, whatever the order in which
\* the range over gd.groupOverrides visited the patterns.
C28_GroupOrderIrrelevant ==
    opOut.done =>
        \A order \in RangeOrders(groupOverrides) :
            LET op == BuildOperation(opOut.key, [route |-> routeOverrides,
                                                 group |-> groupOverrides,
                                                 order |-> order], Now).op
            IN  op.tags = opOut.op.tags /\ op.security = opOut.op.security

\* C29: in every compiled object schema (a registered full schema or variant,
\* or the schema a variant generator returned) the required list names only
\* properties of the schema and names none twice.
C29_RequiredIsSetOfProps ==
    LET Sound(s) ==
            /\ \A i \in 1..Len(s.required) : s.required[i] \in DOMAIN s.props
            /\ \A i, j \in 1..Len(s.required) : s.required[i] = s.required[j] => i = j
    IN  ~crashed =>
            /\ Sound(last.sch)
            /\ \A n \in DOMAIN registry.schemas : Sound(registry.schemas[n])

\* C30: whenever no compilation is running, that is after every call of
\* typeToSchema or of a variant generator that returned, the registry's set
\* of types in progress is empty.
C30_SeenBalanced == ~crashed => registry.seen = {}

\* typeToSchema(Node) returned: Node, which refers to itself through its
\* fields, was walked once and registered, and the set is empty again.
C30_Witness ==
    /\ ~crashed
    /\ last.op = "full" /\ last.root = StructT("main.Node")
    /\ walks["main.Node"] = 1
    /\ "Node" \in DOMAIN registry.schemas
    /\ RefPath("Node") \in RefsIn(registry.schemas["Node"])
    /\ registry.seen = {}

=============================================================================
